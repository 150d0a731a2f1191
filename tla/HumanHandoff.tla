---- MODULE HumanHandoff ----
(***************************************************************************)
(* Human handoff on an Agent-owned runtime: the Hub's coordinator keeps    *)
(* the last observed and the last admitted window, hosted operators get    *)
(* one-purpose context handles for them, the Agent checks every request    *)
(* against its session and asks the handoff runtime (an external process)  *)
(* before a protected command may reach the desktop.                       *)
(*                                                                         *)
(* A window stands for an interaction context and its exact window; a      *)
(* generation stands for a session with its capability revision.  A random *)
(* context handle is a name no live handle has; it carries the window and  *)
(* generation it was made for, which the code never reads from it.  A      *)
(* refusal changes nothing and is not a step.                              *)
(***************************************************************************)
EXTENDS Naturals, Sequences, FiniteSets

CONSTANTS Windows, Ops, Operators,
          Policy,           \* the <<operator, command>> pairs the policy grants
          None, MaxGeneration, MaxEpoch,
          MaxIssued,        \* bindings of the hosted service at one time
          MaxAsks,          \* protected commands that ask for admission
          MaxRequests       \* operator commands

VARIABLES session,     \* the live session's generation, 0 while offline
          generations, \* generations accepted so far
          selection,   \* [observed, admitted]: None or the selected window
          issued,      \* handles with the operator and command they are for
          op,          \* protected commands on their way to the desktop
          ctl,         \* each operator's control request
          active,      \* the Agent's running command: None or [op, token]
          runtime,     \* the handoff runtime (external)
          asks, requests, \* how many of each were made
          blocked      \* a quarantine or a resume barrier is in force

handoffVars == <<session, generations, selection, issued, op, ctl, active,
                 runtime, asks, requests, blocked>>

Surface == {"begin", "reissue", "rebind", "rebind_live"}
Commands == Surface \cup {"abandon", "resume", "cancel"}

IdleOp == [pc |-> "idle", window |-> None, verify |-> FALSE, generation |-> 0,
           decision |-> None]

HandoffInit == /\ session = 0 /\ generations = 0
               /\ selection = [observed |-> None, admitted |-> None]
               /\ issued = {}
               /\ op = [o \in Ops |-> IdleOp]
               /\ ctl = [p \in Operators |-> None]
               /\ active = None
               /\ runtime = [status |-> "agent", epoch |-> 0, window |-> None,
                             generation |-> 0, recovery |-> "none", faulted |-> FALSE,
                             handle |-> None]
               /\ asks = 0 /\ requests = 0 /\ blocked = FALSE

-----------------------------------------------------------------------------
(* The handoff runtime, a child process behind one exclusive exchange.     *)

\* What the runtime answers to an admission question; a faulted runtime has
\* no answer and the callers treat that as a refusal.
RuntimeDecision(window, verify) ==
    IF runtime.faulted THEN "error"
    ELSE IF runtime.recovery # "none" THEN "deny"
    ELSE IF runtime.status = "agent" THEN "allow"
    ELSE IF runtime.status = "verifying" /\ verify /\ window = runtime.window
         THEN "verification" ELSE "deny"

\* The runtime's own guard on a control request.
RuntimeApplies(r) ==
    /\ ~runtime.faulted
    /\ CASE r.command = "begin" -> /\ runtime.status = "agent"
                                   /\ runtime.recovery = "none"
         [] r.command = "reissue" -> runtime.recovery = "pending"
         [] r.command = "rebind" -> runtime.recovery # "none"
         [] r.command = "rebind_live" -> runtime.status # "agent"
         [] r.command = "abandon" -> /\ runtime.recovery = "expired"
                                     /\ runtime.epoch = r.epoch
         [] r.command = "resume" -> /\ runtime.status = "ready"
                                    /\ runtime.epoch = r.epoch
         [] r.command = "cancel" -> /\ runtime.status = "awaiting"
                                    /\ runtime.epoch = r.epoch

\* A surface command opens an intervention on the authority's window under a
\* new epoch; the other commands end one.
RuntimeAfter(r) ==
    IF r.command \in Surface
    THEN [runtime EXCEPT !.status = "awaiting", !.epoch = @ + 1,
            !.window = r.window, !.generation = r.generation,
            !.recovery = "none", !.handle = r.handle]
    ELSE [runtime EXCEPT !.status = "agent", !.recovery = "none",
            !.window = None, !.generation = 0, !.handle = None]

\* The human takes the surface, and later declares to be done.
HumanClaim == /\ runtime.status = "awaiting" /\ ~runtime.faulted
              /\ runtime' = [runtime EXCEPT !.status = "human"]
              /\ UNCHANGED <<asks, requests, session, generations, selection, issued,
                             op, ctl, active, blocked>>

HumanDone == /\ runtime.status = "human" /\ ~runtime.faulted
             /\ runtime' = [runtime EXCEPT !.status = "verifying"]
             /\ UNCHANGED <<asks, requests, session, generations, selection, issued,
                            op, ctl, active, blocked>>

RecoveryExpires ==
    /\ runtime.recovery = "pending"
    /\ runtime' = [runtime EXCEPT !.recovery = "expired"]
    /\ UNCHANGED <<asks, requests, session, generations, selection, issued, op, ctl,
                   active, blocked>>

\* stop_faulted_child: a failed or late exchange marks the runtime faulted
\* and kills the child; nothing starts it again in this Agent process.
RuntimeFault ==
    /\ ~runtime.faulted
    /\ runtime' = [runtime EXCEPT !.faulted = TRUE]
    /\ UNCHANGED <<asks, requests, session, generations, selection, issued, op, ctl,
                   active, blocked>>

-----------------------------------------------------------------------------
(* The Hub's coordinator and the Agent's gates on a protected command.     *)

\* The handles that can still be compared with a request's.
LiveHandles ==
    {selection[k].handle : k \in {x \in {"observed", "admitted"} :
                                    selection[x] # None}}
    \cup {i.handle : i \in issued}

FreshHandle(window, generation) ==
    [name |-> CHOOSE n \in 0..Cardinality(LiveHandles) :
                 \A h \in LiveHandles : h.name # n,
     window |-> window, generation |-> generation]

\* remember_observed_window and remember_admitted_window.
Remember(kind, window, generation) ==
    selection' = [selection EXCEPT ![kind] =
                    [window |-> window, generation |-> generation,
                     handle |-> FreshHandle(window, generation)]]

\* The coordinator remembers the window as observed before it asks.
AdmitAgent(o, w, verify) ==
    /\ op[o].pc = "idle" /\ session > 0
    /\ asks < MaxAsks /\ asks' = asks + 1
    /\ Remember("observed", w, session)
    /\ op' = [op EXCEPT ![o] = [pc |-> "asking", window |-> w,
                                verify |-> verify, generation |-> session,
                                decision |-> None]]
    /\ UNCHANGED <<requests, session, generations, issued, ctl, active, runtime, blocked>>

\* The Agent's loop takes one message at a time, to the end of its awaits.
LoopFree == session > 0 /\ \A p \in Operators :
                               ctl[p] # None => ctl[p].stage # "checked"

\* An admission question reaches the Agent, which checks its session fence.
AgentAdmission(o) ==
    /\ op[o].pc = "asking" /\ LoopFree
    /\ op' = [op EXCEPT ![o].pc = "decided",
                        ![o].decision =
                            IF op[o].generation = session
                            THEN RuntimeDecision(op[o].window, op[o].verify)
                            ELSE "error"]
    /\ UNCHANGED <<asks, requests, session, generations, selection, issued, ctl,
                   active, runtime, blocked>>

\* The coordinator's use of the answer: only an allowed window is remembered
\* as admitted, and a verification answer needs a verification command.
HubDecision(o) ==
    /\ op[o].pc = "decided"
    /\ IF op[o].decision = "allow"
       THEN Remember("admitted", op[o].window, op[o].generation)
       ELSE UNCHANGED selection
    /\ op' = [op EXCEPT ![o] =
                IF op[o].decision = "allow"
                   \/ (op[o].decision = "verification" /\ op[o].verify)
                THEN [@ EXCEPT !.pc = "admitted"] ELSE IdleOp]
    /\ UNCHANGED <<asks, requests, session, generations, issued, ctl, active, runtime, blocked>>

Unsettled == \E o \in Ops : op[o].pc \in {"sent", "running"}

\* The command enters the Hub's execution path under the session fence of
\* its admission; a superseded session refuses it.
StartCommand(o) ==
    /\ op[o].pc = "admitted" /\ ~Unsettled
    /\ op' = [op EXCEPT ![o] = IF op[o].generation = session
                               THEN [@ EXCEPT !.pc = "sent"] ELSE IdleOp]
    /\ UNCHANGED <<asks, requests, session, generations, selection, issued, ctl,
                   active, runtime, blocked>>

\* Mutant: the Hub's answer is taken for the Agent's own.
FinalAdmitUnasked(o) ==
    /\ op[o].pc = "sent" /\ LoopFree /\ active = None
    /\ op' = [op EXCEPT ![o].pc = "running"]
    /\ active' = [op |-> o, token |-> 0]
    /\ UNCHANGED <<asks, requests, session, generations, selection, issued,
                   ctl, runtime, blocked>>

\* final_admit, after the grant is spent and the replay barrier is durable:
\* the runtime is asked again, and only then may the desktop be touched.
FinalAdmit(o) ==
    /\ op[o].pc = "sent" /\ LoopFree /\ active = None
    /\ LET d == RuntimeDecision(op[o].window, op[o].verify) IN
       IF d = "allow" \/ (d = "verification" /\ op[o].verify)
       THEN /\ op' = [op EXCEPT ![o].pc = "running"]
            /\ active' = [op |-> o,
                          token |-> IF d = "allow" THEN 0 ELSE runtime.epoch]
       ELSE op' = [op EXCEPT ![o] = IdleOp] /\ UNCHANGED active
    /\ UNCHANGED <<asks, requests, session, generations, selection, issued, ctl,
                   runtime, blocked>>

\* The command ends; a verification command reports what it saw, with the
\* token it was given, before its result is recorded.
Complete(satisfied) ==
    /\ active # None /\ LoopFree
    /\ op' = [op EXCEPT ![active.op] = IdleOp]
    /\ active' = None
    /\ runtime' = IF /\ active.token # 0 /\ satisfied /\ ~runtime.faulted
                     /\ runtime.status = "verifying"
                     /\ runtime.epoch = active.token
                  THEN [runtime EXCEPT !.status = "ready"] ELSE runtime
    /\ UNCHANGED <<asks, requests, session, generations, selection, issued, ctl, blocked>>

-----------------------------------------------------------------------------
(* Operator control, hosted or through the local socket.                   *)

Kind(command) == IF command = "begin" THEN "admitted" ELSE "observed"

\* A selection an operator may use: unexpired and of the live session.
Selected(kind) == IF /\ selection[kind] # None
                     /\ selection[kind].generation = session
                  THEN selection[kind] ELSE None

\* The hosted policy grants single commands to single principals.
Authorized(p, c) == <<p, c>> \in Policy

\* The hosted service binds the selection's handle to one operator and one
\* command; a later issue of the same handle replaces the binding.
IssueContext(p, c) ==
    /\ Authorized(p, c) /\ c \in Surface /\ session > 0
    /\ Selected(Kind(c)) # None
    /\ LET h == Selected(Kind(c)).handle IN
       issued' = {i \in issued : i.handle # h}
                     \cup {[handle |-> h, operator |-> p, command |-> c]}
    /\ Cardinality(issued') <= MaxIssued
    /\ UNCHANGED <<asks, requests, session, generations, selection, op, ctl, active,
                   runtime, blocked>>

Request(c, handle, sel) ==
    [command |-> c, handle |-> handle, stage |-> "selected",
     window |-> sel.window, generation |-> sel.generation, epoch |-> 0]

\* The commands without a surface name at most an epoch the operator saw.
Bare(c) == [Request(c, None, [window |-> None, generation |-> 0])
              EXCEPT !.epoch = runtime.epoch]

\* The context handle an operator sends names a binding of its own for this
\* command, and has to be the one of the selection as it stands now.
HandleAccepted(p, c, h) ==
    /\ [handle |-> h, operator |-> p, command |-> c] \in issued
    /\ Selected(Kind(c)).handle = h

\* A hosted lifecycle command.
HostedExecute(p, c) ==
    /\ requests < MaxRequests /\ requests' = requests + 1
    /\ ctl[p] = None /\ Authorized(p, c)
    /\ IF c \in Surface
       THEN /\ Selected(Kind(c)) # None
            /\ \E i \in issued :
                 /\ HandleAccepted(p, c, i.handle)
                 /\ ctl' = [ctl EXCEPT ![p] =
                              Request(c, i.handle, Selected(Kind(c)))]
       ELSE ctl' = [ctl EXCEPT ![p] = Bare(c)]
    /\ UNCHANGED <<asks, session, generations, selection, issued, op, active,
                   runtime, blocked>>

\* The same command over the private Unix socket: no handle, the selection
\* of the moment.
LocalExecute(p, c) ==
    /\ requests < MaxRequests /\ requests' = requests + 1
    /\ ctl[p] = None
    /\ IF c \in Surface
       THEN /\ Selected(Kind(c)) # None
            /\ ctl' = [ctl EXCEPT ![p] = Request(c, None, Selected(Kind(c)))]
       ELSE ctl' = [ctl EXCEPT ![p] = Bare(c)]
    /\ UNCHANGED <<asks, session, generations, selection, issued, op, active,
                   runtime, blocked>>

\* handoff_request: every lifecycle command needs a settled ledger, and one
\* that starts human control also neither quarantine nor resume barrier.
HandoffRequest(p) ==
    /\ ctl[p] # None /\ ctl[p].stage = "selected"
    /\ ctl' = [ctl EXCEPT ![p] =
                 IF /\ session > 0 /\ ~Unsettled
                    /\ ctl[p].command = "begin" => ~blocked
                 THEN [@ EXCEPT !.stage = "sent"] ELSE None]
    /\ UNCHANGED <<asks, requests, session, generations, selection, issued, op, active,
                   runtime, blocked>>

\* Mutant: an authority of any session is good enough.
AgentAcceptsAnySession(r) == active = None /\ ~runtime.faulted

\* What the Agent accepts: an idle Agent, an authority of its own session,
\* and the runtime status the command is for (read before the control).
AgentAccepts(r) ==
    /\ active = None
    /\ r.command \in Surface => r.generation = session
    /\ ~runtime.faulted
    /\ CASE r.command = "reissue" -> runtime.recovery = "pending"
         [] r.command = "rebind" -> runtime.recovery # "none"
         [] r.command = "rebind_live" -> /\ runtime.recovery = "none"
                                         /\ runtime.status # "agent"
         [] r.command = "abandon" -> /\ runtime.recovery = "expired"
                                     /\ runtime.epoch = r.epoch
                                     /\ runtime.status = "agent"
         [] r.command = "resume" -> runtime.status = "ready"
         [] r.command = "cancel" -> runtime.status = "awaiting"
         [] OTHER -> TRUE

\* The Agent's first exchange reads the status; resume and cancel take the
\* intervention's epoch from it.
AgentCheck(p) ==
    /\ ctl[p] # None /\ ctl[p].stage = "sent" /\ LoopFree
    /\ ctl' = [ctl EXCEPT ![p] =
                 IF AgentAccepts(ctl[p])
                 THEN [@ EXCEPT !.stage = "checked",
                                !.epoch = IF ctl[p].command \in
                                               {"resume", "cancel"}
                                          THEN runtime.epoch ELSE @]
                 ELSE None]
    /\ UNCHANGED <<asks, requests, session, generations, selection, issued, op, active,
                   runtime, blocked>>

\* The second exchange carries the command; the runtime may have moved since
\* the first, may refuse, and may fail with the change already made.
AgentControl(p) ==
    /\ ctl[p] # None /\ ctl[p].stage = "checked" /\ session > 0
    /\ runtime.epoch < MaxEpoch
    /\ ctl' = [ctl EXCEPT ![p] = None]
    /\ \/ UNCHANGED runtime
       \/ /\ RuntimeApplies(ctl[p])
          /\ \E fault \in BOOLEAN :
               runtime' = [RuntimeAfter(ctl[p]) EXCEPT !.faulted = fault]
    /\ UNCHANGED <<asks, requests, session, generations, selection, issued, op, active,
                   blocked>>

-----------------------------------------------------------------------------
(* Sessions, restarts and expiry.                                          *)

\* Whatever was between Hub and Agent ends with the session: questions and
\* control requests are answered with an error, and a dispatched command has
\* an unknown outcome, which quarantines the device.
SessionEnds ==
    /\ op' = [o \in Ops |-> IF op[o].pc \in {"asking", "sent", "running"}
                            THEN IdleOp ELSE op[o]]
    /\ ctl' = [p \in Operators |->
                 IF ctl[p] # None /\ ctl[p].stage \in {"sent", "checked"}
                 THEN None ELSE ctl[p]]
    /\ blocked' = (blocked \/ Unsettled)
    /\ active' = None

\* A new session takes over under the next generation.
Reconnect ==
    /\ generations < MaxGeneration
    /\ generations' = generations + 1 /\ session' = generations'
    /\ SessionEnds
    /\ UNCHANGED <<asks, requests, selection, issued, runtime>>

\* The Agent process ends; its successor starts a runtime that finds an
\* unfinished intervention and asks for recovery.
AgentRestart ==
    /\ session > 0
    /\ session' = 0
    /\ SessionEnds
    /\ runtime' = [runtime EXCEPT !.faulted = FALSE, !.status = "agent",
                     !.recovery = IF runtime.status # "agent" THEN "pending"
                                  ELSE @,
                     !.window = None, !.generation = 0, !.handle = None]
    /\ UNCHANGED <<asks, requests, generations, selection, issued>>

\* A context is closed, expires or is fenced: no selection of it remains.
\* (The sixty seconds of a selection only refuse
\* what the operator may also not have asked for.)
InvalidateContext(w) ==
    /\ \E k \in {"observed", "admitted"} :
          selection[k] # None /\ selection[k].window = w
    /\ selection' = [k \in {"observed", "admitted"} |->
                       IF selection[k] # None /\ selection[k].window = w
                       THEN None ELSE selection[k]]
    /\ UNCHANGED <<asks, requests, session, generations, issued, op, ctl, active,
                   runtime, blocked>>

\* The hosted binding's own sixty seconds pass, which makes room.
ExpireIssued(i) ==
    /\ issued' = issued \ {i}
    /\ UNCHANGED <<asks, requests, session, generations, selection, op, ctl, active,
                   runtime, blocked>>

\* Recovery and the resume that follows it unblock the device.
Recover ==
    /\ blocked /\ blocked' = FALSE
    /\ UNCHANGED <<asks, requests, session, generations, selection, issued, op, ctl,
                   active, runtime>>

HandoffNext == \/ HumanClaim \/ HumanDone \/ RecoveryExpires \/ RuntimeFault
               \/ \E o \in Ops : \/ \E w \in Windows, v \in BOOLEAN : AdmitAgent(o, w, v)
                                 \/ AgentAdmission(o) \/ HubDecision(o)
                                 \/ StartCommand(o) \/ FinalAdmit(o)
               \/ \E satisfied \in BOOLEAN : Complete(satisfied)
               \/ \E p \in Operators : \/ \E c \in Commands : \/ IssueContext(p, c)
                                                              \/ HostedExecute(p, c)
                                                              \/ LocalExecute(p, c)
                                       \/ HandoffRequest(p) \/ AgentCheck(p)
                                       \/ AgentControl(p)
               \/ Reconnect \/ AgentRestart \/ Recover
               \/ \E w \in Windows : InvalidateContext(w)
               \/ \E i \in issued : ExpireIssued(i)

HandoffSpec == HandoffInit /\ [][HandoffNext]_handoffVars

-----------------------------------------------------------------------------
(* Properties                                                              *)

\* While the human has the surface no protected command runs on the desktop:
\* the idle checks of Hub and Agent and the second question in FinalAdmit
\* close the window between a command's admission and the human's claim.
HumanAlone == runtime.status = "human" => active = None

\* An intervention that a hosted operator opened is on the window the
\* operator's handle was issued for, whatever was observed, admitted,
\* expired or invalidated between the issue and the command.
HandleBindsTarget ==
    runtime.handle # None =>
        /\ runtime.window = runtime.handle.window
        /\ runtime.generation = runtime.handle.generation

\* No intervention is opened on an authority of an earlier session, although
\* the session can be replaced at every await between selection and control.
StaleSelectionNeverOpens ==
    [][runtime'.epoch # runtime.epoch => runtime'.generation = session]_handoffVars

\* A person who takes over a desktop has it alone, and has the window the handle was
\* issued for, whatever else was admitted, observed or expired in between.
HandoffSafe == HumanAlone /\ HandleBindsTarget
====
