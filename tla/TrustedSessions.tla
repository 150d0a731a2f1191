---- MODULE TrustedSessions ----
(***************************************************************************)
(* How a Hub and its Agent come to trust a session and everything said in  *)
(* it: the signed handshake, the frames bound to its two nonces, the       *)
(* registry's generations, one-shot grants judged on the Hub's time, and   *)
(* the rotation of the three kinds of keys across restarts.                *)
(*                                                                         *)
(* A signature is the pair of the key and of what was signed; verifying    *)
(* rebuilds the transcript from the verifier's own session and compares.   *)
(* Nothing relies on the carrier: a frame once sent may be delivered late, *)
(* again, to another session or never.  There is one device, whose id      *)
(* never changes, so device ids are left out of frames and grants.         *)
(***************************************************************************)
EXTENDS Naturals, Sequences, FiniteSets

CONSTANTS HubRotations,     \* documents [from, to, epoch] the operator may install
          DeviceRotations,  \* documents [from, to]
          FirstHubKey, FirstDeviceKey,
          GrantKeys,        \* of the Hub's authority, oldest first
          SignerAllows,     \* capabilities of the external signer's policy
          GrantedCapabilities,
          Anchors,          \* what the Hub's wall clock may read at acceptance
          GrantTtl, IssuedAtSafety,
          Scenarios,        \* what is said unasked, and whether keys are rotated
          MaxSessions, MaxFrames, MaxTicks, MaxHubStarts, MaxAgentStarts

None == "none"

VARIABLES trustHub, \* [key, grantKey, registry, nonces]
          conns,    \* hub nonce -> the Hub's side of a connection
          agent,    \* [key, trusted, epoch, verifiers, consumed, session, hellos]
          wire,     \* every frame ever sent
          strays,   \* frames a side acted on in a session they were not made for
          spent,    \* grants the ledger has authorised: [grant, times]
          scenario, \* which of the scenarios this behaviour is
          applied,  \* Hub rotation documents the Agent has applied, in order
          bounds    \* [ticks, hubStarts, agentStarts]

trustVars == <<trustHub, conns, agent, wire, strays, spent, scenario, applied, bounds>>

ASSUME TrustConstants ==
    /\ {GrantTtl, IssuedAtSafety, MaxSessions, MaxFrames, MaxTicks, MaxHubStarts, MaxAgentStarts} \subseteq Nat
    /\ Anchors \subseteq Nat /\ IssuedAtSafety < GrantTtl
    /\ \A r \in HubRotations : r.epoch \in Nat \ {0}

SessionIds == 1..MaxSessions

NoConn == [phase |-> "unused", an |-> 0, hn |-> 0, gen |-> 0, key |-> None, now |-> 0]
NoSession == [phase |-> "down", an |-> 0, hn |-> 0, gen |-> 0, key |-> None, now |-> 0]
NoGrant == [key |-> 0, cap |-> None, issued |-> 0, expires |-> 0, id |-> 0]
NoRotation == [from |-> None, to |-> None, epoch |-> 0]
\* A connection that is over: only which session it was still matters.
Over(c) == [NoConn EXCEPT !.phase = "over", !.an = c.an, !.hn = c.hn, !.gen = c.gen]

TrustInit ==
    /\ trustHub = [key |-> FirstHubKey, grantKey |-> 1,
                   registry |-> [key |-> FirstDeviceKey, gen |-> 0, online |-> FALSE], nonces |-> 0]
    /\ conns = [n \in SessionIds |-> NoConn]
    /\ agent = [key |-> FirstDeviceKey, trusted |-> FirstHubKey, epoch |-> 0,
                verifiers |-> {1}, consumed |-> {}, session |-> NoSession, hellos |-> 0]
    /\ wire = {} /\ strays = {} /\ spent = {} /\ applied = <<>>
    /\ scenario \in Scenarios
    /\ bounds = [ticks |-> 0, hubStarts |-> 0, agentStarts |-> 0]

-----------------------------------------------------------------------------
(* Transcripts and signatures.                                             *)

Signed(key, transcript) == [by |-> key, over |-> transcript]

\* Mutant: the nonces are left out.
UnboundTranscript(domain, an, hn, fields) ==
    [domain |-> domain, an |-> 0, hn |-> 0, fields |-> fields]

\* What the remote_*_bytes functions have in common: the domain, both nonces
\* of the connection and every field of the frame.
Transcript(domain, an, hn, fields) ==
    [domain |-> domain, an |-> an, hn |-> hn, fields |-> fields]
Blank == [gen |-> 0, about |-> 0, cap |-> None, grant |-> NoGrant, time |-> 0]

RemoteCommandFields(gen, op, cap, grant) ==
    [Blank EXCEPT !.gen = gen, !.about = op, !.cap = cap, !.grant = grant]
HeartbeatFields(gen, sequence) == [Blank EXCEPT !.gen = gen, !.about = sequence]
HeartbeatAckFields(gen, sequence, now) ==
    [Blank EXCEPT !.gen = gen, !.about = sequence, !.time = now]
HandoffFields(gen, request) == [Blank EXCEPT !.gen = gen, !.about = request]
SessionEndFields(gen, context) == [Blank EXCEPT !.gen = gen, !.about = context]
CancelFields(gen, op) == [Blank EXCEPT !.gen = gen, !.about = op]
IndeterminateFields(gen, op) == [Blank EXCEPT !.gen = gen, !.about = op]
ReportFields(gen) == [Blank EXCEPT !.gen = gen]
ResultFields(gen, op) == [Blank EXCEPT !.gen = gen, !.about = op]

\* A frame of an established session.  `origin` is kept for the properties only.
Frame(kind, key, s, fields) ==
    [kind |-> kind, fields |-> fields,
     sig |-> Signed(key, Transcript(kind, s.an, s.hn, fields)),
     origin |-> <<s.an, s.hn>>]

\* verify_remote_*: the schema, then the signature over the rebuilt transcript.
Verifies(frame, key, s) ==
    frame.sig = Signed(key, Transcript(frame.kind, s.an, s.hn, frame.fields))

HandshakeKinds == {"hello", "challenge", "proof", "accepted"}
HubKinds == {"command", "cancel", "session_end", "handoff_request", "heartbeat_ack"}
AgentKinds == {"result", "cancel_ack", "indeterminate_ack", "session_ended",
               "handoff_response", "heartbeat", "report"}

-----------------------------------------------------------------------------
(* The handshake.                                                          *)

SendHello ==
    /\ agent.session.phase = "down" /\ agent.hellos < MaxSessions
    /\ agent' = [agent EXCEPT !.hellos = @ + 1,
                              !.session = [NoSession EXCEPT !.phase = "hello", !.an = agent.hellos + 1,
                                                            !.key = agent.key]]
    /\ wire' = wire \cup {[kind |-> "hello", an |-> agent.hellos + 1]}
    /\ UNCHANGED <<trustHub, conns, strays, spent, applied, bounds, scenario>>

\* HubIdentity::challenge: a fresh nonce, signed with the hello.
HubChallenge(hello) ==
    LET hn == trustHub.nonces + 1
    IN /\ hn <= MaxSessions
       /\ trustHub' = [trustHub EXCEPT !.nonces = hn]
       /\ conns' = [conns EXCEPT ![hn] = [NoConn EXCEPT !.phase = "challenged", !.an = hello.an,
                                                        !.hn = hn]]
       /\ wire' = wire \cup {[kind |-> "challenge", an |-> hello.an, hn |-> hn, hubKey |-> trustHub.key,
                              sig |-> Signed(trustHub.key, Transcript("hub-challenge", hello.an, hn, trustHub.key))]}
       /\ UNCHANGED <<agent, strays, spent, applied, bounds, scenario>>

\* verify_hub_challenge: my nonce, the pinned key, its signature.
VerifyHubChallenge(challenge) ==
    /\ challenge.an = agent.session.an
    /\ challenge.hubKey = agent.trusted
    /\ challenge.sig = Signed(agent.trusted, Transcript("hub-challenge", agent.session.an,
                                                        challenge.hn, challenge.hubKey))

ProofTranscript(an, hn, hubKey) == Transcript("agent-proof", an, hn, hubKey)

\* build_agent_proof, or the session is given up.
AgentProof(challenge) ==
    /\ agent.session.phase = "hello"
    /\ IF VerifyHubChallenge(challenge)
       THEN /\ agent' = [agent EXCEPT !.session.phase = "proved", !.session.hn = challenge.hn]
            /\ wire' = wire \cup {[kind |-> "proof", an |-> agent.session.an, hn |-> challenge.hn,
                                   sig |-> Signed(agent.session.key,
                                                  ProofTranscript(agent.session.an, challenge.hn,
                                                                  challenge.hubKey))]}
       ELSE /\ agent' = [agent EXCEPT !.session = NoSession]
            /\ UNCHANGED wire
    /\ UNCHANGED <<trustHub, conns, strays, spent, applied, bounds, scenario>>

\* verify_agent_proof with the registered key (a revoked device has none: the
\* services never revoke a device).
VerifyAgentProof(conn, proof) ==
    /\ proof.an = conn.an /\ proof.hn = conn.hn
    /\ proof.sig = Signed(trustHub.registry.key, ProofTranscript(conn.an, conn.hn, trustHub.key))
\* DeviceRegistry::connect: the next generation.
Connected(registry) == [registry EXCEPT !.gen = @ + 1, !.online = TRUE]

AcceptedFields(gen, anchor) == [Blank EXCEPT !.gen = gen, !.time = anchor]

\* run_session up to LiveSession: the generation is persisted before the Agent
\* hears of it; an older session is superseded.
AcceptSession(n, proof) ==
    /\ conns[n].phase = "challenged"
    /\ IF VerifyAgentProof(conns[n], proof)
       THEN \E anchor \in Anchors :
            LET registry == Connected(trustHub.registry)
                opened == [conns[n] EXCEPT !.phase = "open", !.gen = registry.gen, !.key = trustHub.registry.key,
                                           !.now = anchor]
            IN /\ trustHub' = [trustHub EXCEPT !.registry = registry]
               /\ conns' = [m \in SessionIds |-> IF m = n THEN opened
                                                 ELSE IF conns[m].phase = "open"
                                                 THEN Over(conns[m])
                                                 ELSE conns[m]]
               /\ wire' = wire \cup {Frame("accepted", trustHub.key, opened, AcceptedFields(registry.gen, anchor))}
       ELSE /\ conns' = [conns EXCEPT ![n] = Over(@)]
            /\ UNCHANGED <<trustHub, wire>>
    /\ UNCHANGED <<agent, strays, spent, applied, bounds, scenario>>

\* verify_session_accepted, then the session's clock starts from the Hub's time.
VerifySessionAccepted(accepted) == Verifies(accepted, agent.trusted, agent.session)

EnterSession(accepted) ==
    /\ agent.session.phase = "proved"
    /\ agent' = IF VerifySessionAccepted(accepted)
                THEN [agent EXCEPT !.session = [@ EXCEPT !.phase = "open", !.gen = accepted.fields.gen,
                                                         !.now = accepted.fields.time]]
                ELSE [agent EXCEPT !.session = NoSession]
    /\ UNCHANGED <<trustHub, conns, wire, strays, spent, applied, bounds, scenario>>

\* Either side loses the connection; the Hub's cleanup marks the device offline
\* when it was the current session.
CloseConnection(n) ==
    /\ conns[n].phase \in {"challenged", "open"}
    /\ conns' = [conns EXCEPT ![n] = Over(@)]
    /\ trustHub' = IF conns[n].phase = "open" THEN [trustHub EXCEPT !.registry.online = FALSE] ELSE trustHub
    /\ UNCHANGED <<agent, wire, strays, spent, applied, bounds, scenario>>
EndTrusted ==
    /\ agent.session.phase # "down"
    /\ agent' = [agent EXCEPT !.session = NoSession]
    /\ UNCHANGED <<trustHub, conns, wire, strays, spent, applied, bounds, scenario>>

-----------------------------------------------------------------------------
(* Grants.                                                                 *)

\* GrantSigningPolicy::authorize and sign_request of the external signer, or
\* the in-process authority: a grant for exactly what was asked, or none.
SignRequest(request) ==
    IF request.cap \in SignerAllows /\ request.ttl > 0
    THEN [key |-> trustHub.grantKey, cap |-> request.cap, issued |-> request.issued,
          expires |-> request.issued + request.ttl, id |-> request.id]
    ELSE NoGrant

\* issue_for_device_capability of the client: the answer must repeat the request.
GrantAnswers(token, request) ==
    /\ token # NoGrant
    /\ token.cap = request.cap /\ token.issued = request.issued
    /\ token.expires = request.issued + request.ttl
    /\ token.key = trustHub.grantKey

\* issued_at is set back, so that a session clock that started a little late on
\* the Agent's side does not find the grant in its future.
BackdatedIssue(now) == IF now > IssuedAtSafety THEN now - IssuedAtSafety ELSE 0

\* validate_unconsumed_grant and the capability checks; `retain` forgets what
\* has expired.
Retained(consumed, now) == {g \in consumed : g.expires > now}
GrantAuthorizes(grant, cap, now) ==
    /\ grant.key \in agent.verifiers
    /\ grant.expires > grant.issued
    /\ grant.issued <= now /\ now < grant.expires
    /\ ~ \E g \in Retained(agent.consumed, now) : g.id = grant.id
    /\ grant.cap = cap

-----------------------------------------------------------------------------
(* Frames of an established session.                                       *)

Room == Cardinality({f \in wire : f.kind \notin HandshakeKinds}) < MaxFrames

\* dispatch_operation: the grant first; a signer that refuses sends nothing.
SendCommand(n, cap) ==
    LET c == conns[n]
        id == Cardinality(wire)
        request == [cap |-> cap, issued |-> BackdatedIssue(c.now), ttl |-> GrantTtl, id |-> id]
        token == SignRequest(request)
    IN /\ c.phase = "open" /\ Room /\ "command" \in scenario.says
       /\ GrantAnswers(token, request)
       /\ wire' = wire \cup {Frame("command", trustHub.key, c, RemoteCommandFields(c.gen, id, cap, token))}
       /\ UNCHANGED <<trustHub, conns, agent, strays, spent, applied, bounds, scenario>>

\* remote_cancel, backend_session_end and remote_handoff_request.
HubControl(kind, gen, id) ==
    CASE kind = "cancel"          -> CancelFields(gen, id)
      [] kind = "session_end"     -> SessionEndFields(gen, id)
      [] kind = "handoff_request" -> HandoffFields(gen, id)

SendControl(n, kind) ==
    /\ conns[n].phase = "open" /\ Room /\ kind \in scenario.says
    /\ wire' = wire \cup {Frame(kind, trustHub.key, conns[n], HubControl(kind, conns[n].gen, Cardinality(wire)))}
    /\ UNCHANGED <<trustHub, conns, agent, strays, spent, applied, bounds, scenario>>

\* What the Agent answers a control frame with.
AgentReply(kind, gen, id) ==
    CASE kind = "command"         -> [kind |-> "result", fields |-> ResultFields(gen, id)]
      [] kind = "cancel"          -> [kind |-> "cancel_ack", fields |-> CancelFields(gen, id)]
      [] kind = "session_end"     -> [kind |-> "session_ended", fields |-> SessionEndFields(gen, id)]
      [] kind = "handoff_request" -> [kind |-> "handoff_response", fields |-> HandoffFields(gen, id)]

\* What the Agent says unasked: build_agent_heartbeat, the reconciliation report
\* and an operation it lost sight of.
AgentVolunteers(kind) ==
    LET s == agent.session
        fields == CASE kind = "heartbeat"         -> HeartbeatFields(s.gen, Cardinality(wire))
                    [] kind = "report"            -> ReportFields(s.gen)
                    [] kind = "indeterminate_ack" -> IndeterminateFields(s.gen, Cardinality(wire))
    IN /\ s.phase = "open" /\ Room /\ kind \in scenario.says
       /\ wire' = wire \cup {Frame(kind, s.key, s, fields)}
       /\ UNCHANGED <<trustHub, conns, agent, strays, spent, applied, bounds, scenario>>

Strayed(frame, s) == IF frame.origin = <<s.an, s.hn>> THEN {} ELSE {frame}

\* A frame the Agent may act on: the signature and the session's generation.
AgentAccepts(frame) ==
    /\ Verifies(frame, agent.trusted, agent.session)
    /\ frame.fields.gen = agent.session.gen
    /\ (frame.kind = "command"
        => GrantAuthorizes(frame.fields.grant, frame.fields.cap, agent.session.now))

\* The Agent's session loop: what does not verify ends the session.  A grant is
\* consumed, and that persisted, before the command goes further.
AgentReceives(frame) ==
    LET s == agent.session
        now == s.now
        grant == frame.fields.grant
        back == AgentReply(frame.kind, s.gen, frame.fields.about)
    IN /\ s.phase = "open" /\ frame.kind \in HubKinds \ {"heartbeat_ack"}
       /\ IF AgentAccepts(frame)
          THEN /\ strays' = strays \cup Strayed(frame, s)
               /\ wire' = IF Room THEN wire \cup {Frame(back.kind, s.key, s, back.fields)} ELSE wire
               /\ IF frame.kind = "command"
                  THEN /\ agent' = [agent EXCEPT !.consumed = Retained(@, now) \cup
                                        {[id |-> grant.id, expires |-> grant.expires]}]
                       /\ spent' = {p \in spent : p.id # grant.id} \cup
                                   {[id |-> grant.id, times |-> 1 +
                                       (IF \E p \in spent : p.id = grant.id
                                        THEN (CHOOSE p \in spent : p.id = grant.id).times ELSE 0)]}
                  ELSE UNCHANGED <<agent, spent>>
          ELSE /\ agent' = [agent EXCEPT !.session = NoSession]
               /\ UNCHANGED <<wire, strays, spent>>
       /\ UNCHANGED <<trustHub, conns, applied, bounds, scenario>>

\* verify_hub_heartbeat_ack: the sequence it waits for is the heartbeat's own.
AgentHearsAck(frame) ==
    LET s == agent.session
    IN /\ s.phase = "open" /\ frame.kind = "heartbeat_ack"
       /\ IF Verifies(frame, agent.trusted, s) /\ frame.fields.gen = s.gen
             /\ \E h \in wire : h.kind = "heartbeat" /\ h.origin = <<s.an, s.hn>>
                                /\ h.fields.about = frame.fields.about
          THEN strays' = strays \cup Strayed(frame, s) /\ UNCHANGED agent
          ELSE agent' = [agent EXCEPT !.session = NoSession] /\ UNCHANGED strays
       /\ UNCHANGED <<trustHub, conns, wire, spent, applied, bounds, scenario>>

\* The Hub's session loop: current generation, signature by the registered key,
\* the frame's own generation.
HubAccepts(n, frame) ==
    /\ conns[n].gen = trustHub.registry.gen
    /\ Verifies(frame, trustHub.registry.key, conns[n])
    /\ frame.fields.gen = conns[n].gen

HubReceives(n, frame) ==
    LET c == conns[n]
        ack == Frame("heartbeat_ack", trustHub.key, c, HeartbeatAckFields(c.gen, frame.fields.about, c.now))
    IN /\ c.phase = "open" /\ frame.kind \in AgentKinds
       /\ IF HubAccepts(n, frame)
          THEN /\ strays' = strays \cup Strayed(frame, c)
               /\ wire' = IF frame.kind = "heartbeat" /\ Room THEN wire \cup {ack} ELSE wire
               /\ UNCHANGED <<trustHub, conns>>
          ELSE /\ conns' = [conns EXCEPT ![n] = Over(@)]
               /\ trustHub' = [trustHub EXCEPT !.registry.online = FALSE]
               /\ UNCHANGED <<wire, strays>>
       /\ UNCHANGED <<agent, spent, applied, bounds, scenario>>

-----------------------------------------------------------------------------
(* Time, restarts and rotation.                                            *)

\* TrustedSessionClock on both sides: elapsed time is added to the anchor.
TrustTick ==
    /\ bounds.ticks < MaxTicks /\ "command" \in scenario.says
    /\ bounds' = [bounds EXCEPT !.ticks = @ + 1]
    /\ conns' = [n \in SessionIds |-> IF conns[n].phase = "open"
                                      THEN [conns[n] EXCEPT !.now = @ + 1] ELSE conns[n]]
    /\ agent' = IF agent.session.phase = "open" THEN [agent EXCEPT !.session.now = @ + 1] ELSE agent
    /\ UNCHANGED <<trustHub, wire, strays, spent, applied, scenario>>

\* rotate_device_key: both keys sign; the generation moves on.
RotatedDevice(registry, doc) ==
    [registry EXCEPT !.key = doc.to, !.gen = @ + 1, !.online = FALSE]

\* restore_runtime_state: the provisioned key is the stored one or the rotation
\* leads from the stored one to it.  mark_all_offline on restore.
RestoredRegistries(stored) ==
    {[stored EXCEPT !.online = FALSE]} \cup
    {RotatedDevice(stored, d) : d \in {r \in DeviceRotations : scenario.rotates /\ r.from = stored.key}}

\* The Hub restarts, from its checkpoint or a backup of an earlier generation, perhaps with a
\* new identity, a new grant key or a rotated device key.
HubRestart ==
    /\ bounds.hubStarts < MaxHubStarts
    /\ bounds' = [bounds EXCEPT !.hubStarts = @ + 1]
    /\ \E gen \in 0..trustHub.registry.gen : \E registry \in RestoredRegistries([trustHub.registry EXCEPT !.gen = gen]) :
       \E key \in {trustHub.key} \cup {r.to : r \in {d \in HubRotations : scenario.rotates /\ d.from = trustHub.key}} :
       \E grantKey \in {trustHub.grantKey} \cup {k \in GrantKeys : scenario.rotates /\ k > trustHub.grantKey} :
          trustHub' = [trustHub EXCEPT !.registry = registry, !.key = key, !.grantKey = grantKey]
    /\ conns' = [n \in SessionIds |-> IF conns[n].phase = "unused" THEN NoConn
                                      ELSE Over(conns[n])]
    /\ UNCHANGED <<agent, wire, strays, spent, applied, scenario>>

\* TrustedHubIdentity::apply_rotation.
RotationApplies(doc, trusted, epoch) ==
    /\ doc.epoch = epoch + 1
    /\ doc.from = trusted
\* AgentService::build over its checkpoint: the pinned key is the material's, or
\* one rotation leads to it; otherwise it does not start and nothing changes.
\* The grant verifiers become exactly the configured ones, and the device key
\* may be the one a rotation document names.
RestartAgent(doc, verifiers) ==
    /\ bounds.agentStarts < MaxAgentStarts
    /\ bounds' = [bounds EXCEPT !.agentStarts = @ + 1]
    /\ doc = NoRotation \/ scenario.rotates
    /\ doc = NoRotation \/ RotationApplies(doc, agent.trusted, agent.epoch)
    /\ \E key \in {agent.key} \cup {r.to : r \in {d \in DeviceRotations : scenario.rotates /\ d.from = agent.key}} :
          agent' = [agent EXCEPT !.trusted = IF doc = NoRotation THEN @ ELSE doc.to,
                                 !.epoch = IF doc = NoRotation THEN @ ELSE doc.epoch,
                                 !.verifiers = verifiers, !.key = key, !.session = NoSession]
    /\ applied' = IF doc = NoRotation THEN applied ELSE Append(applied, doc)
    /\ UNCHANGED <<trustHub, conns, wire, strays, spent, scenario>>

VerifierSets == {v \in SUBSET GrantKeys : v # {}}

TrustNext ==
    \/ SendHello
    \/ \E f \in wire :
          \/ f.kind = "hello" /\ HubChallenge(f)
          \/ f.kind = "challenge" /\ AgentProof(f)
          \/ f.kind = "accepted" /\ EnterSession(f)
          \/ f.kind \in HubKinds /\ (AgentReceives(f) \/ AgentHearsAck(f))
          \/ \E n \in SessionIds : f.kind = "proof" /\ AcceptSession(n, f)
          \/ \E n \in SessionIds : f.kind \in AgentKinds /\ HubReceives(n, f)
    \/ \E n \in SessionIds : CloseConnection(n) \/ \E cap \in GrantedCapabilities : SendCommand(n, cap)
    \/ \E n \in SessionIds, kind \in {"cancel", "session_end", "handoff_request"} : SendControl(n, kind)
    \/ \E kind \in {"heartbeat", "report", "indeterminate_ack"} : AgentVolunteers(kind)
    \/ EndTrusted \/ TrustTick \/ HubRestart
    \/ \E doc \in {NoRotation} \cup HubRotations, v \in VerifierSets : RestartAgent(doc, v)

TrustSpec == TrustInit /\ [][TrustNext]_trustVars

-----------------------------------------------------------------------------
(* Properties.                                                             *)

\* A side acts only on frames its peer signed for this very session, whatever
\* the carrier delivers late or twice and even when the Hub came back from a
\* backup and numbers its generations again.
FramesStayInTheirSession == strays = {}

\* Peers agree: the Agent's open session is one the Hub opened for its hello,
\* under that generation; and a session the Hub opened was proved by the
\* Agent for that challenge, with the key then registered.
PeersAgree ==
    /\ agent.session.phase = "open" =>
          /\ conns[agent.session.hn].an = agent.session.an
          /\ conns[agent.session.hn].gen = agent.session.gen
    /\ \A n \in SessionIds : conns[n].phase = "open" =>
          \E p \in wire : /\ p.kind = "proof" /\ p.an = conns[n].an /\ p.hn = n
                          /\ p.sig.by = conns[n].key

\* The ledger authorises a grant once: not twice in a session, nor after a
\* restart, nor when the Hub's wall clock has stepped back since.
GrantsAreSpentOnce == \A p \in spent : p.times = 1

\* A command that reaches the Agent while its clock lags the Hub's by no more
\* than the safety margin is never found to be from the future.
LatencyIsNotTheFuture ==
    \A f \in wire :
       f.kind = "command" /\ agent.session.phase = "open" /\ conns[agent.session.hn].phase = "open"
       /\ f.origin = <<agent.session.an, agent.session.hn>>
       /\ conns[agent.session.hn].now - agent.session.now <= IssuedAtSafety
       => f.fields.grant.issued <= agent.session.now

\* A Hub rotation document takes effect once on an Agent, in the order of the
\* epochs, whatever documents an operator leaves installed across restarts.
RotationsApplyOnce == \A i, j \in 1..Len(applied) : i < j => applied[i].epoch < applied[j].epoch

\* The trusted session as a whole: frames act only in their session, the peers agree
\* on it, grants are spent once, latency within the margin is not refused, and a key
\* rotation takes effect once.
SessionsSafe ==
    /\ FramesStayInTheirSession /\ PeersAgree /\ GrantsAreSpentOnce
    /\ LatencyIsNotTheFuture /\ RotationsApplyOnce
====
