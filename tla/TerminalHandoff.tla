---- MODULE TerminalHandoff ----
(***************************************************************************)
(* Handing a terminal to a human: one PTY session with its output ring and *)
(* two read cursors, the coordinator that orders authority and PTY calls   *)
(* under one operation gate, and the handoff runtime (external) that owns  *)
(* the authority.  Output is a sequence of tags, the phase in which each   *)
(* piece reached the ring; the ring keeps the last RingSize pieces.        *)
(***************************************************************************)
EXTENDS Naturals, Sequences

CONSTANTS NoOne, RingSize, ContextTail, MaxOutput, MaxTerminalEpoch, MaxSessions

ASSUME TerminalConstants == RingSize \in Nat /\ ContextTail \in Nat

VARIABLES pty,       \* None or [generation, child, closed, reaped]
          ring,      \* the tags of all output that reached the ring
          cursor,    \* [agent, human]: how much each has been shown or denied
          seen,      \* tags the Agent has been shown
          bound,     \* the coordinator's binding: None or a generation
          spawned,   \* generations used
          authority, \* the runtime's record (external)
          gate,      \* the operation that holds the gate, with its progress
          writes     \* the last write: its author and the phase it met

terminalVars == <<pty, ring, cursor, seen, bound, spawned, authority, gate, writes>>

Max2(a, b) == IF a > b THEN a ELSE b

NoAuthority == [phase |-> "unbound", epoch |-> 0, sync |-> FALSE]

TerminalInit == /\ pty = NoOne /\ ring = << >> /\ seen = {} /\ bound = NoOne
                /\ cursor = [agent |-> 0, human |-> 0]
                /\ spawned = 0 /\ authority = NoAuthority /\ gate = NoOne
                /\ writes = NoOne

-----------------------------------------------------------------------------
(* The PTY session.                                                        *)

\* OutputRing: what falls out of the ring is lost to both readers.
Start == IF Len(ring) > RingSize THEN Len(ring) - RingSize ELSE 0

\* ensure_open refuses a closed session; one past its lifetime is closed and
\* reaped on the spot, which PtyExpires stands for.
Open == pty # NoOne /\ ~pty.closed

\* The reader thread appends what the child wrote.
Output == /\ pty # NoOne /\ pty.child /\ Len(ring) < MaxOutput
          /\ ring' = Append(ring, authority.phase)
          /\ UNCHANGED <<pty, cursor, seen, bound, spawned, authority, gate,
                         writes>>

ChildExits == /\ pty # NoOne /\ pty.child
              /\ pty' = [pty EXCEPT !.child = FALSE]
              /\ UNCHANGED <<ring, cursor, seen, bound, spawned, authority,
                             gate, writes>>

\* terminate_and_reap: the session is closed first, its processes are stopped
\* and listed until no new one appears, then killed.  A failed listing or a
\* survivor leaves it closed and not reaped, to be tried again.
Terminated(reaped) ==
    [pty EXCEPT !.closed = TRUE, !.child = FALSE, !.reaped = @ \/ reaped]

\* The listing may fail or time out, a signal may be refused, a process may
\* outlive its half second: the clean-up ends either way.
ReapOutcomes == BOOLEAN

PtyExpires == /\ Open
              /\ \E reaped \in ReapOutcomes : pty' = Terminated(reaped)
              /\ UNCHANGED <<ring, cursor, seen, bound, spawned, authority,
                             gate, writes>>

\* process_state: an exited child closes and reaps the session.
Running == Open /\ pty.child

\* read_agent: everything from the cursor on, less what the ring dropped.
ReadAgent ==
    /\ seen' = seen \cup {ring[i] : i \in Max2(cursor.agent, Start) + 1..Len(ring)}
    /\ cursor' = [cursor EXCEPT !.agent = Len(ring)]

ReadHuman == cursor' = [cursor EXCEPT !.human = Len(ring)]

\* begin_human_output shows the human a short tail; finish_human_output moves
\* the Agent past everything.
BeginHumanOutput ==
    cursor' = [cursor EXCEPT !.human =
                 Max2(Start, IF Len(ring) > ContextTail
                             THEN Len(ring) - ContextTail ELSE 0)]

\* Mutant: the Agent goes on where it stopped reading.
FinishKeepingCursor == UNCHANGED cursor

FinishHumanOutput == cursor' = [cursor EXCEPT !.agent = Len(ring)]

-----------------------------------------------------------------------------
(* The runtime's decisions (external).                                     *)

AgentMay == authority.phase = "agent" /\ ~authority.sync
HumanMay(epoch) == authority.phase = "human" /\ authority.epoch = epoch

\* SessionExit: with the terminal gone nobody holds it; an intervention that
\* was under way stays to be verified.
Exited == [authority EXCEPT !.phase =
             IF @ \in {"human", "verifying", "ready"} THEN "verifying" ELSE "exited"]

-----------------------------------------------------------------------------
(* The coordinator.  Every operation takes the gate, and keeps it across   *)
(* its calls of the runtime and of the PTY.                                *)

Free == gate = NoOne

\* TerminalPtySession::spawn: the handles of the master come before the child.
FreshPty(generation) == [generation |-> generation, child |-> TRUE,
                         closed |-> FALSE, reaped |-> FALSE]

\* spawn: the PTY first, then Bind; a refused Bind closes the PTY again, and
\* one that cannot be reaped stays behind, closed and without a binding.
Spawn ==
    /\ Free /\ pty = NoOne /\ spawned < MaxSessions
    /\ spawned' = spawned + 1
    /\ LET fresh == FreshPty(spawned') IN
       \/ /\ pty' = fresh /\ bound' = spawned'
          /\ authority' = [authority EXCEPT !.phase = "agent", !.sync = FALSE]
       \/ UNCHANGED <<pty, bound, authority>>
       \/ /\ pty' = [fresh EXCEPT !.child = FALSE, !.closed = TRUE]
          /\ UNCHANGED <<bound, authority>>
    /\ ring' = << >> /\ cursor' = [agent |-> 0, human |-> 0]
    /\ UNCHANGED <<seen, gate, writes>>

\* Input and reading are two calls: the runtime says yes, then the PTY acts.
Ask(who, what, epoch) ==
    /\ Free /\ bound # NoOne
    /\ IF who = "agent" THEN AgentMay ELSE HumanMay(epoch)
    /\ gate' = [op |-> what, who |-> who, epoch |-> epoch]
    /\ UNCHANGED <<pty, ring, cursor, seen, bound, spawned, authority, writes>>

\* agent_write, human_write and the two resizes.
Write ==
    /\ gate # NoOne /\ gate.op = "write"
    /\ writes' = IF Open THEN [who |-> gate.who, phase |-> authority.phase,
                               epoch |-> gate.epoch, of |-> authority.epoch]
                 ELSE writes
    /\ gate' = NoOne
    /\ UNCHANGED <<pty, ring, cursor, seen, bound, spawned, authority>>

\* agent_read and human_read.
Read ==
    /\ gate # NoOne /\ gate.op = "read"
    /\ IF ~Open THEN UNCHANGED <<cursor, seen>>
       ELSE IF gate.who = "agent" THEN ReadAgent
       ELSE ReadHuman /\ UNCHANGED seen
    /\ gate' = NoOne
    /\ UNCHANGED <<pty, ring, bound, spawned, authority, writes>>

\* begin_human_fence: the Agent's authority goes first, then its writes are
\* drained and the human's cursor set.
BeginFence ==
    /\ Free /\ bound # NoOne /\ authority.phase = "agent" /\ ~authority.sync
    /\ authority.epoch < MaxTerminalEpoch
    /\ authority' = [authority EXCEPT !.phase = "awaiting", !.epoch = @ + 1]
    /\ gate' = [op |-> "begin", who |-> "agent", epoch |-> authority'.epoch]
    /\ UNCHANGED <<pty, ring, cursor, seen, bound, spawned, writes>>

\* A terminal that is gone, or whose writes cannot be drained, ends the
\* session instead.
PrepareHuman ==
    /\ gate # NoOne /\ gate.op = "begin"
    /\ \/ /\ Running /\ BeginHumanOutput
          /\ UNCHANGED <<pty, authority>>
       \/ /\ \E reaped \in ReapOutcomes : pty' = Terminated(reaped)
          /\ authority' = Exited /\ UNCHANGED cursor
    /\ gate' = NoOne
    /\ UNCHANGED <<ring, seen, bound, spawned, writes>>

\* claim_human, on the intervention the fence returned.
ClaimHuman(epoch) ==
    /\ Free /\ bound # NoOne
    /\ \/ /\ Running /\ authority.phase = "awaiting" /\ authority.epoch = epoch
          /\ authority' = [authority EXCEPT !.phase = "human"]
          /\ UNCHANGED pty
       \/ /\ ~Running
          /\ \E reaped \in ReapOutcomes : pty' = Terminated(reaped)
          /\ authority' = Exited
    /\ UNCHANGED <<ring, cursor, seen, bound, spawned, gate, writes>>

\* human_done: first the runtime leaves human control, then the human's
\* writes are drained and the Agent's cursor moves past the human's output.
DoneFence(epoch) ==
    /\ Free /\ bound # NoOne /\ HumanMay(epoch)
    /\ authority' = [authority EXCEPT !.phase = "verifying"]
    /\ gate' = [op |-> "done", who |-> "human", epoch |-> epoch]
    /\ UNCHANGED <<pty, ring, cursor, seen, bound, spawned, writes>>

FinishDone ==
    /\ gate # NoOne /\ gate.op = "done"
    /\ \/ Running /\ FinishHumanOutput /\ UNCHANGED <<pty, authority>>
       \/ \* the terminal is gone: reaped, and the runtime told
          /\ pty' = Terminated(TRUE) /\ FinishHumanOutput /\ authority' = Exited
       \/ \* it cannot be reaped: the operation ends here
          pty' = Terminated(FALSE) /\ UNCHANGED <<cursor, authority>>
    /\ gate' = NoOne
    /\ UNCHANGED <<ring, seen, bound, spawned, writes>>

\* report_verification and resume.
Verify(epoch) ==
    /\ Free /\ bound # NoOne
    /\ authority.phase = "verifying" /\ authority.epoch = epoch
    /\ authority' = [authority EXCEPT !.phase = "ready"]
    /\ UNCHANGED <<pty, ring, cursor, seen, bound, spawned, gate, writes>>

Resume(epoch) ==
    /\ Free /\ bound # NoOne
    /\ authority.phase = "ready" /\ authority.epoch = epoch
    /\ authority' = [authority EXCEPT !.phase = "agent", !.sync = TRUE]
    /\ UNCHANGED <<pty, ring, cursor, seen, bound, spawned, gate, writes>>

\* acknowledge_state_invalidated: the output is discarded before the runtime
\* lifts the fence on observation.
Acknowledge ==
    /\ Free /\ bound # NoOne /\ pty # NoOne
    /\ FinishHumanOutput
    /\ gate' = [op |-> "ack", who |-> "agent", epoch |-> authority.epoch]
    /\ UNCHANGED <<pty, ring, seen, bound, spawned, authority, writes>>

AckStateSync ==
    /\ gate # NoOne /\ gate.op = "ack"
    /\ authority' = IF authority.phase = "agent"
                    THEN [authority EXCEPT !.sync = FALSE] ELSE authority
    /\ gate' = NoOne
    /\ UNCHANGED <<pty, ring, cursor, seen, bound, spawned, writes>>

\* process_state: whoever looks first at a dead terminal closes it and tells
\* the runtime.
ProcessState ==
    /\ Free /\ bound # NoOne /\ pty # NoOne /\ ~Running
    /\ \E reaped \in ReapOutcomes : pty' = Terminated(reaped)
    /\ authority' = Exited
    /\ UNCHANGED <<ring, cursor, seen, bound, spawned, gate, writes>>

\* close_session: terminate, SessionExit, ReleaseClosed, release; an
\* incomplete termination ends the operation before anything is released.
CloseSession ==
    /\ Free /\ bound # NoOne /\ pty # NoOne
    /\ \/ pty' = Terminated(FALSE) /\ UNCHANGED <<bound, authority>>
       \/ /\ pty' = NoOne /\ bound' = NoOne
          /\ authority' = [NoAuthority EXCEPT !.epoch = authority.epoch]
    /\ UNCHANGED <<ring, cursor, seen, spawned, gate, writes>>

TerminalNext == \/ Output \/ ChildExits \/ PtyExpires \/ Spawn
                \/ \E e \in 0..MaxTerminalEpoch :
                     \/ \E who \in {"agent", "human"}, what \in {"read", "write"} :
                          Ask(who, what, e)
                     \/ ClaimHuman(e) \/ DoneFence(e) \/ Verify(e) \/ Resume(e)
                \/ Write \/ Read \/ BeginFence \/ PrepareHuman \/ FinishDone
                \/ Acknowledge \/ AckStateSync \/ ProcessState \/ CloseSession

TerminalSpec == TerminalInit /\ [][TerminalNext]_terminalVars

-----------------------------------------------------------------------------
(* Properties                                                              *)

\* The Agent is never shown output that arrived while a human had, was about
\* to have or had just had the terminal, although the reader thread appends
\* at any time, also between the two halves of human_done and of the
\* acknowledgement.
HumanOutputStaysHidden ==
    seen \cap {"awaiting", "human", "verifying", "ready"} = {}

\* Every write meets the authority it was allowed under: no transition comes
\* between the runtime's yes and the bytes, the race the gate is for.
WritesMeetTheirAuthority ==
    writes # NoOne => IF writes.who = "agent" THEN writes.phase = "agent"
                      ELSE writes.phase = "human" /\ writes.epoch = writes.of

\* A person at a terminal is neither watched nor interrupted: output of that time stays
\* hidden from the Agent and every write meets the authority it was allowed under.
TerminalSafe == HumanOutputStaysHidden /\ WritesMeetTheirAuthority
====
