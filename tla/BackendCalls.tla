---------------------------- MODULE BackendCalls ----------------------------
(***************************************************************************)
(* What happens between an admitted command and the computer-use provider: *)
(*                                                                         *)
(*   mutation_authority.rs  the owner file and its OS lock, shared by the  *)
(*     V1 gateway and the V2 Agent of one device;                          *)
(*   gateway.rs             the V1 gateway: tool snapshot, policy, call;   *)
(*   backend/cua.rs         CuaBackend: one call at a time, a permit for   *)
(*     every effectful tool, reconnection, cancellation and timeout;       *)
(*   v2_m1_backend.rs, v2_browser_execute.rs, v2_m1_agent.rs   how the     *)
(*     answer, or its absence, becomes the outcome the Hub is told.        *)
(*                                                                         *)
(* Each role has its own provider process, reached over its own link.  A   *)
(* provider acts on a request it received whether or not anyone still      *)
(* waits for the answer.                                                   *)
(***************************************************************************)
EXTENDS Integers, FiniteSets

CONSTANTS
    BackendCallIds, \* calls of the run
    CallForms,      \* the forms of call the run makes, among Forms
    MaxOwnerEpoch,  \* bound: switches of the owner file
    MaxLinks        \* bound: provider processes started per role

Owners == {"v1", "v2"}
Nobody == "nobody"

\* The forms a call takes.  "session" is a command whose backend session is started first.
Forms == {"gateway", "native", "session", "macos", "browser", "upload", "download"}
FormsOf(role) == IF role = "v1" THEN {"gateway"} ELSE CallForms \ {"gateway"}

ASSUME BackendConstants == /\ CallForms \subseteq Forms /\ Nobody \notin BackendCallIds
                           /\ MaxOwnerEpoch \in Nat /\ MaxLinks \in Nat

\* What a provider may answer; a refusal says that nothing was done.
Answers == {"ok", "error", "malformed", "multi_round", "refused", "partial"}

VARIABLES
    ownerFile,   \* mutation-authority.json: owner and epoch
    ownerLock,   \* holder of mutation-authority.lock: a call or Nobody
    link,        \* CuaBackend.service of a role: whether it is live, and which one it is
    operation,   \* operation_lock of a role: a call or Nobody
    backendCall, \* the calls
    acting       \* requests some provider has received and is working on

backendVars == <<ownerFile, ownerLock, link, operation, backendCall, acting>>

IdleCall == [at |-> "idle", role |-> "v1", form |-> "gateway", mutates |-> FALSE,
             phase |-> "main", link |-> 0, answer |-> "none", acted |-> FALSE, told |-> "none",
             ended |-> "none"]

Live(role) == link[role].up
Waiting(c) == backendCall[c].at \in {"ready", "sent"}
\* classify_tool(tool) # Observe: start_session is a system tool whatever follows it.
NeedsPermit(call) == call.mutates \/ call.phase = "start"

-----------------------------------------------------------------------------
(* Outcomes                                                                *)

Unless(call, outcome) == IF call.mutates THEN outcome ELSE "failed"

\* Gateway::call_tool: the V1 client is given the result or an error text.
GatewayOutcome(call, event) == IF event \in {"ok", "error", "refused", "partial", "malformed"}
                               THEN "completed" ELSE "error"

\* CuaMcpAdapter::execute, start_session: an unknown session state is never a failure.
SessionOutcome(call, event) ==
    IF event \in {"cancelled", "timed_out", "lost", "error"} THEN "indeterminate" ELSE "failed"

\* CuaMcpAdapter::execute: the call itself and the reading of its result.
NativeOutcome(call, event) ==
    CASE event = "ok" -> "completed"
      [] event \in {"cancelled", "timed_out"} -> "indeterminate"
      [] event \in {"lost", "error", "malformed"} -> Unless(call, "indeterminate")
      [] OTHER -> "failed"

\* macos_mcp_call_failure and MacosMcpAdapter::execute.
MacosOutcome(call, event) ==
    CASE event = "ok" -> "completed"
      [] event \in {"cancelled", "timed_out", "lost", "error", "malformed"} ->
            Unless(call, "indeterminate")
      [] OTHER -> "failed"

\* execute_cua_browser: refusal_reason comes before is_error, and knows partial input.
BrowserOutcome(call, event) ==
    CASE event \in {"refused", "partial"} -> "failed"
      [] OTHER -> NativeOutcome(call, event)

\* execute_cua_browser_upload and the Agent's consume_handles after it.
UploadOutcome(call, event) == BrowserOutcome(call, event)

\* execute_cua_browser_download; the Agent's finalize may still refuse what was written.
DownloadOutcome(call, event) == BrowserOutcome(call, event)

Outcome(call, event) ==
    IF call.phase = "start" THEN SessionOutcome(call, event)
    ELSE CASE call.form = "gateway" -> GatewayOutcome(call, event)
           [] call.form = "macos" -> MacosOutcome(call, event)
           [] call.form = "browser" -> BrowserOutcome(call, event)
           [] call.form = "upload" -> UploadOutcome(call, event)
           [] call.form = "download" -> DownloadOutcome(call, event)
           [] OTHER -> NativeOutcome(call, event)

\* Drop of the operation guard and of MutationAuthorityPermit.
Release(c) ==
    /\ operation' = [operation EXCEPT ![backendCall[c].role] = Nobody]
    /\ ownerLock' = IF ownerLock = c THEN Nobody ELSE ownerLock

End(c, event) ==
    /\ backendCall' = [backendCall EXCEPT ![c].at = "over", ![c].ended = event,
                                          ![c].told = Outcome(backendCall[c], event)]
    /\ Release(c)

-----------------------------------------------------------------------------
(* The owner file                                                          *)

\* switch_mutation_authority_guarded: compare and set under the exclusive lock.
Switch(from, to) ==
    /\ from # to
    /\ ownerLock = Nobody
    /\ ownerFile.owner = from
    /\ ownerFile.epoch < MaxOwnerEpoch
    /\ ownerFile' = [owner |-> to, epoch |-> ownerFile.epoch + 1]
    /\ UNCHANGED <<ownerLock, link, operation, backendCall, acting>>

\* try_acquire: the lock is free and the owner, read under it, is the caller's role.
TryAcquire(role) == ownerLock = Nobody /\ ownerFile.owner = role

-----------------------------------------------------------------------------
(* CuaBackend                                                              *)

\* Gateway::call_tool after its policy and tool snapshot, CuaMcpAdapter::execute after
\* its validation: call_tool is entered and waits for the operation lock.
Enter(c, role, form, mutates) ==
    /\ backendCall[c].at = "idle"
    /\ form \in FormsOf(role)
    /\ form \in {"upload", "download"} => mutates
    /\ backendCall' = [backendCall EXCEPT ![c] =
           [IdleCall EXCEPT !.at = "queued", !.role = role, !.form = form, !.mutates = mutates,
                            !.phase = IF form = "session" THEN "start" ELSE "main"]]
    /\ UNCHANGED <<ownerFile, ownerLock, link, operation, acting>>

\* call_tool: operation_lock, then mutation_permit; a refused permit ends the call.
Begin(c) ==
    LET call == backendCall[c] IN
    /\ call.at = "queued"
    /\ operation[call.role] = Nobody
    /\ IF NeedsPermit(call) /\ ~TryAcquire(call.role)
       THEN /\ backendCall' = [backendCall EXCEPT ![c].at = "over", ![c].ended = "no_permit",
                    ![c].told = Outcome(call, "no_permit")]
            /\ UNCHANGED <<operation, ownerLock>>
       ELSE /\ backendCall' = [backendCall EXCEPT ![c].at = "ready"]
            /\ operation' = [operation EXCEPT ![call.role] = c]
            /\ ownerLock' = IF NeedsPermit(call) THEN c ELSE ownerLock
    /\ UNCHANGED <<ownerFile, link, acting>>

Closed(role) == link' = [link EXCEPT ![role].up = FALSE]

\* A request a closed provider process has not begun dies with it.
Killed(role) == {c \in acting : backendCall[c].role = role}

\* connect_once: the old service is closed, a process started and its version compared.
Connect(role) ==
    /\ ~Live(role)
    /\ link[role].n < MaxLinks
    /\ \E c \in BackendCallIds : operation[role] = c /\ backendCall[c].at = "ready"
    /\ link' = [link EXCEPT ![role] = [n |-> @.n + 1, up |-> TRUE]]
    /\ UNCHANGED <<ownerFile, ownerLock, operation, backendCall, acting>>

\* connect_with_backoff gives up, or the request cannot be written.
Unreachable(c) ==
    /\ backendCall[c].at = "ready"
    /\ End(c, "unreachable")
    /\ UNCHANGED <<ownerFile, link, acting>>

\* send_cancellable_request over the peer of the current service.
Send(c) ==
    LET call == backendCall[c] IN
    /\ call.at = "ready"
    /\ Live(call.role)
    /\ backendCall' = [backendCall EXCEPT ![c].at = "sent", ![c].link = link[call.role].n]
    /\ UNCHANGED <<ownerFile, ownerLock, link, operation, acting>>

\* A start_session that answered without is_error is followed by the call it was for.
Answered(c) ==
    LET call == backendCall[c] IN
    /\ call.at = "sent"
    /\ call.answer # "none"
    /\ Live(call.role) /\ link[call.role].n = call.link
    /\ IF call.phase = "start" /\ call.answer \in {"ok", "malformed"}
       THEN /\ backendCall' = [backendCall EXCEPT ![c] =
                  [call EXCEPT !.at = "queued", !.phase = "main", !.answer = "none",
                               !.acted = FALSE, !.link = 0]]
            /\ Release(c)
       ELSE End(c, call.answer)
    /\ UNCHANGED <<ownerFile, link, acting>>

\* The Agent's own step after a completed upload or download fails: consume_handles or
\* finalize refuses, and the operation is reported failed.
AgentStepFails(c) ==
    LET call == backendCall[c] IN
    /\ call.at = "over" /\ call.told = "completed"
    /\ call.form \in {"upload", "download"}
    /\ backendCall' = [backendCall EXCEPT ![c].told = "failed", ![c].answer = "staging"]
    /\ UNCHANGED <<ownerFile, ownerLock, link, operation, acting>>

\* The cancellation arm: the provider is notified, nobody waits for it.
Cancel(c) ==
    /\ backendCall[c].at = "sent"
    /\ End(c, "cancelled")
    /\ UNCHANGED <<ownerFile, link, acting>>

\* recover_after_failure: close_current kills the provider process of this link.
LoseResponse(c) ==
    LET role == backendCall[c].role IN
    /\ backendCall[c].at = "sent"
    /\ ~Live(role) \/ link[role].n # backendCall[c].link
    /\ End(c, "lost")
    /\ Closed(role)
    /\ acting' = acting \ Killed(role)
    /\ UNCHANGED ownerFile

\* Mutant: a timeout leaves the provider process running.
TimeOutKeepsLink(c) ==
    /\ backendCall[c].at = "sent"
    /\ End(c, "timed_out")
    /\ UNCHANGED <<ownerFile, link, acting>>

\* The request timeout, which ends the provider process with the call.
TimeOut(c) ==
    LET role == backendCall[c].role IN
    /\ backendCall[c].at = "sent"
    /\ End(c, "timed_out")
    /\ Closed(role)
    /\ acting' = acting \ Killed(role)
    /\ UNCHANGED ownerFile

\* shutdown takes reconnect_lock only: a call in flight loses its provider.
Shutdown(role) ==
    /\ Live(role)
    /\ Closed(role)
    /\ acting' = acting \ Killed(role)
    /\ UNCHANGED <<ownerFile, ownerLock, operation, backendCall>>

\* list_tools: under the operation lock; a failed listing closes the link and tries again.
ListTools(role) ==
    /\ operation[role] = Nobody
    /\ Live(role)
    /\ link[role].n < MaxLinks
    /\ link' = [link EXCEPT ![role].n = @ + 1]
    /\ acting' = acting \ Killed(role)
    /\ UNCHANGED <<ownerFile, ownerLock, operation, backendCall>>

-----------------------------------------------------------------------------
(* The provider                                                            *)

\* A request written to a live process is begun, also after its caller has gone; it has
\* an effect or it has none.
ProviderBegins(c, acts) ==
    LET call == backendCall[c] IN
    /\ call.at \in {"sent", "over"}
    /\ call.link > 0 /\ call.answer = "none" /\ ~call.acted
    /\ Live(call.role) /\ link[call.role].n = call.link
    /\ c \notin acting
    /\ acting' = acting \cup {c}
    /\ backendCall' = [backendCall EXCEPT ![c].acted = acts]
    /\ UNCHANGED <<ownerFile, ownerLock, link, operation>>

\* It answers: a refusal after doing nothing, completion and partial input after acting.
ProviderAnswers(c, answer) ==
    /\ c \in acting
    /\ answer \in {"refused", "partial"} => backendCall[c].form \in {"browser", "upload", "download"}
    /\ answer = "refused" => ~backendCall[c].acted
    /\ answer \in {"ok", "partial"} => backendCall[c].acted
    /\ acting' = acting \ {c}
    /\ backendCall' = [backendCall EXCEPT ![c].answer = answer]
    /\ UNCHANGED <<ownerFile, ownerLock, link, operation>>

-----------------------------------------------------------------------------
BackendInit ==
    /\ ownerFile \in [owner : Owners, epoch : {1}]
    /\ ownerLock = Nobody
    /\ link = [role \in Owners |-> [n |-> 0, up |-> FALSE]]
    /\ operation = [role \in Owners |-> Nobody]
    /\ backendCall = [c \in BackendCallIds |-> IdleCall]
    /\ acting = {}

BackendNext ==
    \/ \E from, to \in Owners : Switch(from, to)
    \/ \E c \in BackendCallIds, role \in Owners, form \in CallForms, mutates \in BOOLEAN :
          Enter(c, role, form, mutates)
    \/ \E c \in BackendCallIds :
          \/ Begin(c) \/ Unreachable(c) \/ Send(c) \/ Answered(c) \/ AgentStepFails(c)
          \/ Cancel(c) \/ LoseResponse(c) \/ TimeOut(c)
          \/ \E acts \in BOOLEAN : ProviderBegins(c, acts)
          \/ \E answer \in Answers : ProviderAnswers(c, answer)
    \/ \E role \in Owners : Connect(role) \/ Shutdown(role) \/ ListTools(role)

BackendSpec == BackendInit /\ [][BackendNext]_backendVars

-----------------------------------------------------------------------------
(* Properties                                                              *)

\* While an effectful call is being sent or waited for it holds the permit and its role
\* owns the device, so the two gateways never wait for mutations at the same time and a
\* switch never falls between a permit and the request it was taken for.
PermitCoversTheCall ==
    \A c \in BackendCallIds :
        Waiting(c) /\ NeedsPermit(backendCall[c]) =>
            ownerLock = c /\ ownerFile.owner = backendCall[c].role

\* An effectful command of the Agent whose provider acted and did not answer is told
\* indeterminate: a definite failure is only ever read off an answer.
SilenceIsNotFailure ==
    \A c \in BackendCallIds :
        backendCall[c].role = "v2" /\ backendCall[c].mutates /\ backendCall[c].acted
            /\ backendCall[c].told = "failed" => backendCall[c].answer # "none"

\* operation_lock: a provider that has one call of a role before it may only still be
\* working on another one that was cancelled; what timed out or was lost is gone.
OnlyCancelledWorkOverlaps ==
    \A c, d \in BackendCallIds :
        /\ c # d /\ backendCall[c].at = "sent"
        /\ d \in acting /\ backendCall[d].role = backendCall[c].role
        => backendCall[d].ended = "cancelled"

\* What the threat model and V2_GUI_SEMANTIC_CAPABILITIES.md say: once an effectful
\* command was dispatched, only proof that nothing happened makes it a failure.
FailedDidNothing ==
    \A c \in BackendCallIds :
        backendCall[c].role = "v2" /\ backendCall[c].mutates /\ backendCall[c].told = "failed"
            => ~backendCall[c].acted

\* What switch_mutation_authority says: a switch does not complete while an effectful
\* call is in flight.
SwitchWaitsForWork ==
    [][ownerFile' # ownerFile => \A c \in acting : ~backendCall[c].mutates]_backendVars

\* Calls of the two gateways to one provider: an effectful one is covered by its
\* permit for as long as it is waited for, silence is never called failure, and only
\* cancelled work overlaps the next call.
BackendSafe == PermitCoversTheCall /\ SilenceIsNotFailure /\ OnlyCancelledWorkOverlaps
=============================================================================
