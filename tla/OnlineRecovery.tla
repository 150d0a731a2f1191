---- MODULE OnlineRecovery ----
(***************************************************************************)
(* Recovery of a quarantined desktop by a person in front of it.  The Hub  *)
(* signs a challenge for its quarantine, the Agent publishes it as a file, *)
(* the recovery tool (v2_recover) has the person review and sign it and    *)
(* leaves the authorization beside it, the Agent relays that file once,    *)
(* the Hub applies it durably and answers with a signed receipt.  Sessions *)
(* drop, either side restarts, challenges expire, and the tool's files are *)
(* shared with the Agent without a lock.  A signature is modelled by what  *)
(* it covers: a message that verifies is the message that was signed.      *)
(***************************************************************************)
EXTENDS Naturals, Sequences, FiniteSets

CONSTANTS Ops, Clis, None,
          PolicyOf,   \* op -> the policy its capability may be accepted under
          Confirmations, \* "completed" and "notExecuted", which are handled alike
          MaxGen, MaxNonce, MaxReq

ASSUME RecoveryConstants == /\ PolicyOf \in [Ops -> {"transient", "click", "none"}]
                            /\ MaxGen \in Nat /\ MaxNonce \in Nat /\ MaxReq \in Nat

VARIABLES
  quarantine, \* Hub, durable: None or the blocking operation's [op, gen]
  barrier,    \* Hub, durable: None or [op, qgen, accepted]
  applied,    \* Hub, durable: what each accepted authorization cleared
  pending,    \* Hub memory: the challenge an authorization must answer
  lastResolved, \* Hub memory: the authorization last accepted
  handling,   \* Hub: authorizations between their check and their effect
  gen, up,    \* the device generation; its session "open", "closing" or "down"
  toAgent, toHub, \* the session's frames
  files,      \* Agent's state directory: challenge, auth, resolved
  relayed,    \* Agent memory: the authorization awaiting its receipt
  agentStep,  \* Agent: the file operation its handler has reached
  cli,        \* each recovery tool's state
  evidence,   \* decisions the reconciliation audit supports
  cliTold,       \* requests a tool has reported as durably completed
  nonces, reqs, expired

recoveryHubVars == <<quarantine, barrier, applied, pending, lastResolved, handling>>
netVars == <<gen, up, toAgent, toHub>>
agentVars == <<files, relayed, agentStep>>
cliVars == <<cli, cliTold, reqs>>
recoveryVars == <<recoveryHubVars, netVars, agentVars, cliVars, evidence, nonces, expired>>

\* What the bounds still admit.
MoreSessions == gen < MaxGen
MoreChallenges == nonces < MaxNonce

Decisions == Confirmations \cup {"accepted", "resumed"}
Policies == {"transient", "click", "none"}

NoFiles == [challenge |-> None, auth |-> None, resolved |-> None]

IdleCli == [st |-> "idle", ch |-> None, guided |-> FALSE, seen |-> {}, auth |-> None]

RecoveryInit ==
    /\ quarantine = None /\ barrier = None /\ applied = {}
    /\ pending = None /\ lastResolved = None /\ handling = {}
    /\ gen = 1 /\ up = "open" /\ toAgent = <<>> /\ toHub = <<>>
    /\ files = NoFiles /\ relayed = None /\ agentStep = <<"loop">>
    /\ cli = [c \in Clis |-> IdleCli] /\ cliTold = {} /\ reqs = 0
    /\ evidence = {} /\ nonces = 0 /\ expired = {}

\* validate_recovery_decision: which decisions a phase admits.
ValidDecision(stage, decision, policy) ==
    \/ /\ stage = "quarantine" /\ decision \in Confirmations
       /\ policy = "none"
    \/ stage = "quarantine" /\ decision = "accepted" /\ policy # "none"
    \/ stage = "resume" /\ decision = "resumed" /\ policy = "none"

----------------------------------------------------------------------------
(* The Hub's challenge.                                                    *)

\* What a challenge would be about now, for a session of generation g: the
\* quarantine, or else a barrier of an earlier generation.
Subject(q, b, g) ==
    IF q # None
    THEN [phase |-> "quarantine", op |-> q.op, qgen |-> q.gen, accepted |-> 0]
    ELSE IF b # None /\ g > b.accepted
         THEN [phase |-> "resume", op |-> b.op, qgen |-> b.qgen,
               accepted |-> b.accepted]
         ELSE None

\* build_recovery_challenge and build_mutation_resume_challenge: the subject,
\* the session's generation and a fresh nonce, under the Hub's signature.
NewChallenge(s, g, n) == [subject |-> s, gen |-> g, nonce |-> n]

\* Mutant: an unanswered challenge is kept whatever it was about.
SendsChallengeOnce(q, b, g) == Subject(q, b, g) # None /\ pending = None

\* A pending challenge is not sent again while it answers the same subject in
\* the same generation and has not expired.
SendsChallenge(q, b, g) ==
    /\ Subject(q, b, g) # None
    /\ ~ (/\ pending # None /\ pending.subject = Subject(q, b, g)
          /\ pending.gen = g /\ pending.nonce \notin expired)

\* maybe_send_recovery_challenge over the Hub's new ledger (q, b), ending in
\* the frame sent after those already queued.
MaybeSendChallenge(q, b, g, channel) ==
    IF SendsChallenge(q, b, g)
    THEN /\ MoreChallenges /\ nonces' = nonces + 1
         /\ pending' = NewChallenge(Subject(q, b, g), g, nonces + 1)
         /\ lastResolved' = None
         /\ toAgent' = Append(channel, [k |-> "challenge", ch |-> pending'])
    ELSE /\ toAgent' = channel /\ UNCHANGED <<pending, lastResolved, nonces>>

\* A session's loop handles one frame at a time; the loop of a session that was
\* replaced may still be inside its last one.
HubFree == up = "open" /\ \A a \in handling : a.ch.gen # gen

\* mark_indeterminate left the device quarantined; no mutation runs under a
\* quarantine or a barrier, so neither stood before.
Quarantined(o) ==
    /\ HubFree /\ quarantine = None /\ barrier = None
    /\ \A a \in applied : a.auth.ch.subject.op # o
    /\ quarantine' = [op |-> o, gen |-> gen]
    /\ evidence' = {}
    /\ MaybeSendChallenge(quarantine', barrier, gen, toAgent)
    /\ UNCHANGED <<barrier, applied, handling, gen, up, toHub, agentVars, cliVars,
                   expired>>

\* The heartbeat's handler.
HeartbeatChallenge ==
    /\ HubFree /\ SendsChallenge(quarantine, barrier, gen)
    /\ MaybeSendChallenge(quarantine, barrier, gen, toAgent)
    /\ UNCHANGED <<quarantine, barrier, applied, handling, gen, up, toHub, agentVars,
                   cliVars, evidence, expired>>

\* The challenge's five minutes pass, those of the earlier ones before it.
Expires(n) ==
    /\ n \in 1..nonces \ expired /\ 1..(n - 1) \subseteq expired /\ MoreChallenges
    /\ expired' = expired \cup {n}
    /\ UNCHANGED <<recoveryHubVars, netVars, agentVars, cliVars, evidence, nonces>>

\* The reconciliation audit gains evidence; it changes what guided review offers.
EvidenceArrives(d) ==
    /\ quarantine # None /\ evidence = {} /\ d \in Confirmations
    /\ evidence' = {d}
    /\ UNCHANGED <<recoveryHubVars, netVars, agentVars, cliVars, nonces, expired>>

----------------------------------------------------------------------------
(* The session.                                                            *)

SessionEnds == up' = "down" /\ toAgent' = <<>> /\ toHub' = <<>>

Disconnect ==
    /\ up = "open" /\ MoreSessions
    /\ SessionEnds
    /\ UNCHANGED <<recoveryHubVars, gen, agentVars, cliVars, evidence, nonces, expired>>

\* A new session: the Agent never carries an authorization across, the Hub
\* challenges afresh.  The Hub's handler of the old session may still be at work.
Reconnect ==
    /\ up = "down" /\ MoreSessions /\ agentStep = <<"loop">>
    /\ gen' = gen + 1 /\ up' = "open" /\ toHub' = <<>>
    /\ MaybeSendChallenge(quarantine, barrier, gen + 1, <<>>)
    /\ files' = [files EXCEPT !.challenge = None, !.auth = None]
    /\ relayed' = None
    /\ UNCHANGED <<quarantine, barrier, applied, handling, agentStep, cliVars, evidence,
                   expired>>

\* The Hub has returned from the session; the Agent reads what was sent before.
SeesEnd ==
    /\ up = "closing" /\ agentStep = <<"loop">> /\ toAgent = <<>>
    /\ SessionEnds
    /\ UNCHANGED <<recoveryHubVars, gen, agentVars, cliVars, evidence, nonces, expired>>

AgentCrash ==
    /\ MoreSessions
    /\ SessionEnds /\ relayed' = None /\ agentStep' = <<"loop">>
    /\ UNCHANGED <<recoveryHubVars, gen, files, cliVars, evidence, nonces, expired>>

HubRestart ==
    /\ MoreSessions
    /\ SessionEnds /\ pending' = None /\ lastResolved' = None /\ handling' = {}
    /\ UNCHANGED <<quarantine, barrier, applied, gen, agentVars, cliVars, evidence,
                   nonces, expired>>

----------------------------------------------------------------------------
(* The Agent.                                                              *)

AgentReads(k) == /\ up # "down" /\ agentStep = <<"loop">>
                 /\ toAgent # <<>> /\ Head(toAgent).k = k

\* verify_recovery_challenge: the Hub's, this generation's, and still current.
ChallengeVerifies(c) == c.gen = gen /\ c.nonce \notin expired

\* It verifies, then clear_authorization, then (the next step)
\* store_challenge; a challenge of another generation or out of date ends the
\* session.
AgentTakesChallenge ==
    /\ AgentReads("challenge")
    /\ LET c == Head(toAgent).ch IN
         IF ChallengeVerifies(c)
         THEN /\ files' = [files EXCEPT !.auth = None]
              /\ agentStep' = <<"store", c>> /\ toAgent' = Tail(toAgent)
              /\ UNCHANGED <<up, toHub>>
         ELSE SessionEnds /\ UNCHANGED <<files, agentStep>>
    /\ UNCHANGED <<recoveryHubVars, gen, relayed, cliVars, evidence, nonces, expired>>

AgentStoresChallenge ==
    /\ agentStep[1] = "store"
    /\ files' = [files EXCEPT !.challenge = agentStep[2]]
    /\ relayed' = None /\ agentStep' = <<"loop">>
    /\ UNCHANGED <<recoveryHubVars, netVars, cliVars, evidence, nonces, expired>>

\* validate_authorization_against_challenge.
CliAnswers(c, a, old) == c # None /\ a.ch = c /\ c.nonce \notin old

\* The 250 ms poll: an authorization that does not answer the challenge on
\* disk is removed; one that does is relayed once, after the receipt of an
\* earlier request is removed.
AgentPolls ==
    /\ up # "down" /\ agentStep = <<"loop">> /\ relayed = None /\ files.auth # None
    /\ IF CliAnswers(files.challenge, files.auth, expired)
       THEN /\ files' = [files EXCEPT !.resolved = None]
            /\ toHub' = IF up = "open" THEN Append(toHub, files.auth) ELSE toHub
            /\ relayed' = files.auth
       ELSE /\ files' = [files EXCEPT !.auth = None]
            /\ UNCHANGED <<toHub, relayed>>
    /\ UNCHANGED <<recoveryHubVars, gen, up, toAgent, agentStep, cliVars, evidence, nonces,
                   expired>>

\* persist_verified_recovery_completion: the receipt is stored before the
\* challenge and the authorization are removed, each a step a crash can follow.
AgentTakesReceipt ==
    /\ AgentReads("resolved")
    /\ IF relayed # None /\ relayed = Head(toAgent).auth
       THEN /\ files' = [files EXCEPT !.resolved = relayed]
            /\ agentStep' = <<"clearChallenge">> /\ toAgent' = Tail(toAgent)
            /\ UNCHANGED <<up, toHub>>
       ELSE SessionEnds /\ UNCHANGED <<files, agentStep>>
    /\ UNCHANGED <<recoveryHubVars, gen, relayed, cliVars, evidence, nonces, expired>>

AgentClears ==
    /\ \/ /\ agentStep = <<"clearChallenge">> /\ agentStep' = <<"clearAuth">>
          /\ files' = [files EXCEPT !.challenge = None] /\ UNCHANGED relayed
       \/ /\ agentStep = <<"clearAuth">> /\ agentStep' = <<"loop">>
          /\ files' = [files EXCEPT !.auth = None] /\ relayed' = None
    /\ UNCHANGED <<recoveryHubVars, netVars, cliVars, evidence, nonces, expired>>

----------------------------------------------------------------------------
(* The Hub's answer to an authorization.                                   *)

\* Before any lock on the ledger: a repeated request is answered again, any
\* other must answer the pending challenge in this session's generation.
HubChecks ==
    /\ HubFree /\ toHub # <<>>
    /\ LET a == Head(toHub)
           again == lastResolved # None /\ lastResolved.req = a.req
       IN \/ /\ again /\ lastResolved = a
             /\ toAgent' = Append(toAgent, [k |-> "resolved", auth |-> a])
             /\ toHub' = Tail(toHub) /\ UNCHANGED <<up, handling>>
          \/ /\ ~ again /\ CliAnswers(pending, a, expired) /\ a.ch.gen = gen
             /\ ValidDecision(a.ch.subject.phase, a.decision, a.policy)
             /\ handling' = handling \cup {a} /\ toHub' = Tail(toHub)
             /\ UNCHANGED <<up, toAgent>>
          \/ /\ IF again THEN lastResolved # a
                ELSE ~ (CliAnswers(pending, a, expired) /\ a.ch.gen = gen)
             /\ SessionEnds /\ UNCHANGED handling
    /\ UNCHANGED <<quarantine, barrier, applied, pending, lastResolved, gen, agentVars,
                   cliVars, evidence, nonces, expired>>

\* accept_current_state: a later generation than the operation's, under the
\* policy its capability has.
MayAccept(a) == /\ a.ch.gen = gen /\ gen > quarantine.gen
                /\ a.policy = PolicyOf[quarantine.op]

\* Mutant: whatever is quarantined now is what the person decided about.
EffectStandsForAnything(a) ==
    IF a.ch.subject.phase = "quarantine"
    THEN quarantine # None /\ (a.decision = "accepted" => MayAccept(a))
    ELSE barrier # None

\* The ledger still holds what the challenge was about.
EffectStands(a) ==
    IF a.ch.subject.phase = "quarantine"
    THEN /\ quarantine # None
         /\ quarantine.op = a.ch.subject.op /\ quarantine.gen = a.ch.subject.qgen
         /\ a.decision = "accepted" => MayAccept(a)
    ELSE /\ barrier # None
         /\ barrier.op = a.ch.subject.op /\ barrier.qgen = a.ch.subject.qgen
         /\ barrier.accepted = a.ch.subject.accepted
         /\ a.ch.gen > barrier.accepted

\* resolve_indeterminate, accept_current_state or resume_mutations: what the
\* ledger becomes.
LedgerAfter(a) ==
    IF a.ch.subject.phase = "resume" THEN [q |-> quarantine, b |-> None]
    ELSE [q |-> None,
          b |-> IF a.decision = "accepted" /\ a.policy = "click"
                THEN [op |-> quarantine.op, qgen |-> quarantine.gen,
                      accepted |-> a.ch.gen]
                ELSE barrier]

\* The receipt goes to the session the request came on: one that has been
\* replaced delivers nothing.  An accepted click closes the session, for the
\* next generation to decide whether mutations resume.
Acknowledges(a) ==
    IF up = "open" /\ a.ch.gen = gen
    THEN /\ toAgent' = Append(toAgent, [k |-> "resolved", auth |-> a])
         /\ up' = IF a.policy = "click" THEN "closing" ELSE up
         /\ UNCHANGED toHub
    ELSE UNCHANGED <<up, toAgent, toHub>>

\* The transition and its checkpoint, then the receipt.
HubApplies(a) ==
    /\ a \in handling
    /\ \/ /\ EffectStands(a)
          /\ quarantine' = LedgerAfter(a).q /\ barrier' = LedgerAfter(a).b
          /\ applied' = applied \cup {[auth |-> a, q |-> quarantine, b |-> barrier]}
          /\ pending' = None /\ lastResolved' = a
          /\ Acknowledges(a)
       \/ \* the ledger moved on, or the checkpoint was not written: rolled back
          /\ IF up = "open" /\ a.ch.gen = gen THEN SessionEnds
             ELSE UNCHANGED <<up, toAgent, toHub>>
          /\ UNCHANGED <<quarantine, barrier, applied, pending, lastResolved>>
    /\ handling' = handling \ {a}
    /\ UNCHANGED <<gen, agentVars, cliVars, evidence, nonces, expired>>

----------------------------------------------------------------------------
(* The recovery tool.                                                      *)

\* verified_challenge; in guided review load_guided_review and
\* compose_guided_recovery_plan, which add what the audit supports.
Review(c, guided) ==
    /\ cli[c].st = "idle" /\ reqs < MaxReq
    /\ files.challenge # None /\ files.challenge.nonce \notin expired
    /\ guided => files.challenge.subject.phase = "quarantine"
    /\ cli' = [cli EXCEPT ![c] = [IdleCli EXCEPT !.st = "reviewed",
                 !.ch = files.challenge, !.guided = guided,
                 !.seen = IF guided THEN evidence ELSE {}]]
    /\ UNCHANGED <<recoveryHubVars, netVars, agentVars, cliTold, reqs, evidence, nonces, expired>>

\* classify_guided_recovery_review_lifecycle: neither expired nor replaced.
ReviewCurrent(c) == /\ cli[c].ch.nonce \notin expired
                    /\ files.challenge = cli[c].ch

\* The choices a guided plan offers: the supported decisions, or with none the
\* person's own assertion, or acceptance of the current state.
GuidedChoices(seen, s) ==
    IF seen # {} THEN {<<d, "none">> : d \in seen}
    ELSE {<<d, "none">> : d \in Confirmations} \cup
         (IF PolicyOf[s.op] = "none" THEN {} ELSE {<<"accepted", PolicyOf[s.op]>>})

\* revalidate_guided_*: the plan made afresh is the plan that was reviewed.
Revalidates(c) == ReviewCurrent(c) /\ evidence = cli[c].seen

\* The guided prompt polls its review: one that has expired or was replaced
\* discards the choice and starts over.  The person may cancel, or the
\* presence check may be denied.
ReviewEnds(c) ==
    /\ cli[c].st = "reviewed"
    /\ cli' = [cli EXCEPT ![c] = IdleCli]
    /\ UNCHANGED <<recoveryHubVars, netVars, agentVars, cliTold, reqs, evidence, nonces, expired>>

\* new_authorization_with_decision: the challenge's fields under a fresh request.
NewAuthorization(ch, d, p, n) == [ch |-> ch, req |-> n, decision |-> d, policy |-> p]

\* The signature, with the person present at the platform's authenticator.
SignAuthorization(c, d, p) ==
    /\ cli[c].st = "reviewed" /\ reqs < MaxReq
    /\ ValidDecision(cli[c].ch.subject.phase, d, p)
    /\ reqs' = reqs + 1
    /\ cli' = [cli EXCEPT ![c].st = "signed",
                 ![c].auth = NewAuthorization(cli[c].ch, d, p, reqs + 1)]
    /\ UNCHANGED <<recoveryHubVars, netVars, agentVars, cliTold, evidence, nonces, expired>>

\* guide: an offered choice, revalidated before the presence check.
Guide(c, d, p) ==
    /\ cli[c].guided /\ Revalidates(c)
    /\ <<d, p>> \in GuidedChoices(cli[c].seen, cli[c].ch.subject)
    /\ SignAuthorization(c, d, p)

\* The direct commands sign the challenge they loaded, however long ago.
Resolve(c, d) == d \in Confirmations /\ ~ cli[c].guided
                 /\ SignAuthorization(c, d, "none")

AcceptCurrentState(c, p) == ~ cli[c].guided /\ SignAuthorization(c, "accepted", p)

ResumeMutations(c) == ~ cli[c].guided /\ SignAuthorization(c, "resumed", "none")

\* store_authorization, which never replaces a file; refused, the tool stops.
StoreAuthorization(c) ==
    IF files.auth = None
    THEN /\ files' = [files EXCEPT !.auth = cli[c].auth]
         /\ cli' = [cli EXCEPT ![c].st = "waiting"]
    ELSE cli' = [cli EXCEPT ![c] = IdleCli] /\ UNCHANGED files

\* publish_guided_authorization looks at the challenge once more after the
\* presence check; the direct commands do not.
Publish(c) ==
    /\ cli[c].st = "signed"
    /\ IF cli[c].guided => ReviewCurrent(c) THEN StoreAuthorization(c)
       ELSE cli' = [cli EXCEPT ![c] = IdleCli] /\ UNCHANGED files
    /\ UNCHANGED <<recoveryHubVars, netVars, relayed, agentStep, cliTold, reqs, evidence, nonces,
                   expired>>

\* recovery_completion_matches_expected.
ReceiptMatches(r, a) ==
    /\ r # None /\ r.req = a.req /\ r.ch.subject.phase = a.ch.subject.phase
    /\ r.ch.subject.op = a.ch.subject.op /\ r.ch.gen = a.ch.gen
    /\ r.decision = a.decision /\ r.policy = a.policy

\* wait_for_completion_verified: it reports completion only on the matching
\* receipt, and gives up at its deadline.
Confirm(c) ==
    /\ cli[c].st = "waiting"
    /\ \/ /\ ReceiptMatches(files.resolved, cli[c].auth)
          /\ cliTold' = cliTold \cup {cli[c].auth}
       \/ UNCHANGED cliTold
    /\ cli' = [cli EXCEPT ![c] = IdleCli]
    /\ UNCHANGED <<recoveryHubVars, netVars, agentVars, reqs, evidence, nonces, expired>>

----------------------------------------------------------------------------

HubStep == HeartbeatChallenge \/ HubChecks \/ \E a \in handling : HubApplies(a)
AgentStep == \/ AgentTakesChallenge \/ AgentStoresChallenge \/ AgentPolls
             \/ AgentTakesReceipt \/ AgentClears \/ SeesEnd

RecoveryNext ==
    \/ \E o \in Ops : Quarantined(o)
    \/ \E n \in 1..MaxNonce : Expires(n)
    \/ \E d \in Confirmations : EvidenceArrives(d)
    \/ Disconnect \/ Reconnect \/ AgentCrash \/ HubRestart
    \/ HubStep \/ AgentStep
    \/ \E c \in Clis : \/ \E g \in BOOLEAN : Review(c, g)
                       \/ \E d \in Decisions, p \in Policies : Guide(c, d, p)
                       \/ \E d \in Confirmations : Resolve(c, d)
                       \/ \E p \in Policies : AcceptCurrentState(c, p)
                       \/ ResumeMutations(c) \/ ReviewEnds(c)
                       \/ Publish(c) \/ Confirm(c)

\* The two services' loops and the Agent's reconnection keep running; nobody
\* promises that a person comes.
RecoveryFairness == /\ WF_recoveryVars(HubStep) /\ WF_recoveryVars(AgentStep)
                    /\ WF_recoveryVars(Reconnect)

RecoverySpec == RecoveryInit /\ [][RecoveryNext]_recoveryVars /\ RecoveryFairness

----------------------------------------------------------------------------

\* What an authorization cleared is the quarantine, or the barrier, its signer
\* was shown, however sessions, restarts and re-issued challenges interleave
\* between the review and the Hub's transition (handle_recovery_authorization).
ClearsWhatWasReviewed ==
    \A x \in applied :
        LET s == x.auth.ch.subject IN
        IF s.phase = "quarantine" THEN x.q = [op |-> s.op, gen |-> s.qgen]
        ELSE x.b = [op |-> s.op, qgen |-> s.qgen, accepted |-> s.accepted]

\* A tool reports completion only for a request whose effect is in the Hub's
\* ledger, though receipts of earlier requests stay on the Agent's disk.
ToldIsDurable == \A a \in cliTold : \E x \in applied : x.auth = a

\* Where the model's bounds end: no session can follow, or no challenge.
CutOff == (up # "open" /\ ~MoreSessions) \/ ~MoreChallenges

ChallengeOnDisk == /\ files.challenge # None /\ files.challenge.gen = gen
                   /\ files.challenge.subject.phase = "quarantine"
                   /\ files.challenge.subject.op = quarantine.op

\* A quarantine that stays is put before the person: a challenge for it, of the
\* current generation, reaches the Agent's disk, whatever challenge was lost,
\* expired or outlived by its session (HeartbeatChallenge, AgentStoresChallenge).
ChallengeReachesThePerson ==
    (quarantine # None /\ ~CutOff) ~> (quarantine = None \/ ChallengeOnDisk \/ CutOff)

\* A decision made away from the Hub is honest at both ends: it clears only what the
\* person was shown, and a tool that reports it durable is right, over lost frames,
\* reconnections and repeated requests.
RecoverySafe == ClearsWhatWasReviewed /\ ToldIsDurable
====
