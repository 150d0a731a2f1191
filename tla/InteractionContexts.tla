---- MODULE InteractionContexts ----
(***************************************************************************)
(* The northbound surface's short-lived capabilities: interaction contexts *)
(* of a client on one device session, and the opaque refs that stand for   *)
(* windows, tabs, pages, dialogs and staged files of a context.  A call    *)
(* locks this state several times (enter, prepare, publish) and waits for  *)
(* the device in between.  A session fixes its capability revision, so a   *)
(* generation stands for the pair.  A "tab" ref is a target ref with its   *)
(* tab, a "page" ref a snapshot with its element refs: they live and die   *)
(* together.  The backend has one tab; document counts what it showed.     *)
(***************************************************************************)
EXTENDS Naturals, FiniteSets

CONSTANTS Owners, Contexts, ContextCalls,
          Menus,          \* what clients do, one per behaviour: the people, the
                          \* contexts and tools they use, whether they guess,
                          \* and how many refs are minted at most
          MaxGeneration, MaxDocument,
          RefLimit,       \* max_refs_per_context
          ContextLimit    \* max_contexts_per_owner

VARIABLES menu, session, context, refs, lastRef, contextCall, document, reported

contextVars == <<menu, session, context, refs, lastRef, contextCall, document, reported>>

ASSUME ContextConstants ==
    /\ {MaxGeneration, MaxDocument, RefLimit, ContextLimit} \subseteq Nat
    /\ \A m \in Menus : m.contexts \subseteq Contexts

ScopedKinds == {"element", "file", "download"}
BrowserKinds == {"tab", "page", "continuation", "dialog"}
TabTools == {"inspect", "continue", "navigate", "click", "type", "pointer",
             "dialog", "answer", "upload", "download"}
PageTools == {"click", "type", "pointer", "upload", "download"}
PageRefTools == TabTools \cup {"bind", "stage"}
WindowRefTools == PageRefTools \cup {"window", "element"}
DesktopRefTools == {"desktop"}

Free == [state |-> "none"]
Gone == [state |-> "gone"]
IdleContextCall == [phase |-> "idle"]

\* NorthboundInteractionState::new, and a Hub no device has connected to.
ContextsInit ==
    /\ menu \in Menus
    /\ session = [gen |-> 0, up |-> FALSE]
    /\ context = [c \in Contexts |-> Free]
    /\ refs = {} /\ lastRef = 0 /\ document = 1 /\ reported = 1
    /\ contextCall = [k \in ContextCalls |-> IdleContextCall]

IsOpen(c) == context[c].state = "open"

-----------------------------------------------------------------------------
(* The three registries.                                                   *)

Registry(kind) == IF kind \in ScopedKinds THEN ScopedKinds ELSE BrowserKinds

\* mint: the limit counts every ref of the context in that registry.
HasRoom(all, c, kind) ==
    Cardinality({r \in all : r.ctx = c /\ r.kind \in Registry(kind)}) <= RefLimit

NewRef(id, kind, k, tab, snap) ==
    [id |-> id, kind |-> kind, ctx |-> contextCall[k].ctx, gen |-> contextCall[k].gen,
     tab |-> tab, snap |-> snap, doc |-> contextCall[k].doc]

\* Mutant: a ref of any context will do.
OwnedAnyContext(k, id, kind) == {r \in refs : r.id = id /\ r.kind = kind}

\* resolve and require_owned: one ref of the named kind, of the caller's
\* context and of the generation the caller's context was validated in.
Owned(k, id, kind) ==
    {r \in refs : r.id = id /\ r.kind = kind /\ r.ctx = contextCall[k].ctx /\ r.gen = contextCall[k].gen}

\* require_snapshot and resolve_page_ref: the ref belongs to this tab ref, and
\* so does the snapshot it came from.
OnItsTab(k, id, kind) ==
    {r \in Owned(k, id, kind) :
        /\ r.tab = contextCall[k].tab
        /\ r.kind = "continuation" => Owned(k, r.snap, "page") # {}}

\* invalidate_snapshot_bound_for_tab and invalidate_dialogs_for_tab.
PagesOf(k) == {r \in refs : r.kind \in {"page", "continuation"} /\ r.tab = contextCall[k].tab
                                /\ r.ctx = contextCall[k].ctx /\ r.gen = contextCall[k].gen}
DialogsOf(k) == {r \in refs : r.kind = "dialog" /\ r.tab = contextCall[k].tab /\ r.ctx = contextCall[k].ctx}

\* invalidate_context of both ref registries.
RefsOf(cs) == {r \in refs : r.ctx \in cs}

-----------------------------------------------------------------------------
(* A call of a client, up to its validated context.                        *)

\* What a client may name: refs of the context, or guesses of any ref.
Names(t, c) ==
    LET Seen(kind) == {r.id : r \in {r \in refs : r.kind = kind /\ (menu.guess \/ r.ctx = c)}}
    IN
    [tab: IF t \in TabTools THEN Seen("tab") ELSE {0},
     arg: CASE t \in PageTools -> Seen("page") [] t = "continue" -> Seen("continuation")
            [] t = "answer" -> Seen("dialog") [] t = "element" -> Seen("element")
            [] OTHER -> {0},
     file: IF t = "upload" THEN Seen("file") ELSE {0}]

\* Context ids are random: which unused one comes next makes no difference.
NextContext == CHOOSE c \in menu.contexts : context[c].state = "none"

\* call_tool as far as current_session_binding: the generation is read here,
\* before the state is locked.
Ask(k, who, t, c) ==
    /\ session.up /\ contextCall[k].phase = "idle"
    /\ IF t = "open" THEN context[c].state = "none" /\ c = NextContext
       ELSE /\ context[c].state # "none"
            /\ IsOpen(c) /\ ~menu.guess => context[c].owner = who
    /\ \E n \in Names(t, c) :
          contextCall' = [contextCall EXCEPT ![k] =
              [phase |-> "asked", who |-> who, tool |-> t, ctx |-> c, gen |-> session.gen,
               tab |-> n.tab, arg |-> n.arg, file |-> n.file, scope |-> "none",
               carried |-> {}, under |-> 0, doc |-> 0]]
    /\ UNCHANGED <<menu, session, context, refs, lastRef, document, reported>>

\* prune_expired and fence_live_binding with the generation the caller read:
\* whatever is of another generation goes, its refs with it.
Lapsed == {c \in Contexts : IsOpen(c) /\ context[c].due}
Fenced(gen) == {c \in Contexts : IsOpen(c) /\ context[c].gen # gen}
Kept(gen) == {r \in refs \ RefsOf(Lapsed) : r.gen = gen}
AfterFence(gen) == [c \in Contexts |-> IF c \in Lapsed \cup Fenced(gen) THEN Gone ELSE context[c]]

NewContext(k) == [state |-> "open", owner |-> contextCall[k].who, gen |-> contextCall[k].gen,
                  scope |-> "window", due |-> FALSE]

\* open: the owner's open contexts are counted after the fence.
Open(k) ==
    LET gen == contextCall[k].gen  c == contextCall[k].ctx  after == AfterFence(gen)
        mine == {d \in Contexts : after[d].state = "open" /\ after[d].owner = contextCall[k].who}
    IN /\ contextCall[k].phase = "asked" /\ contextCall[k].tool = "open"
       /\ context' = IF Cardinality(mine) < ContextLimit /\ after[c].state = "none"
                     THEN [after EXCEPT ![c] = NewContext(k)] ELSE after
       /\ refs' = Kept(gen)
       /\ contextCall' = [contextCall EXCEPT ![k] = IdleContextCall]
       /\ UNCHANGED <<menu, session, lastRef, document, reported>>

\* validate_and_touch, then the scope the tool wants.
Admits(k, after) ==
    LET b == after[contextCall[k].ctx] IN
    /\ b.state = "open" /\ b.owner = contextCall[k].who /\ b.gen = contextCall[k].gen
    /\ contextCall[k].tool \in DesktopRefTools => b.scope = "desktop"
    /\ contextCall[k].tool \in WindowRefTools => b.scope = "window"
Enter(k) ==
    LET after == AfterFence(contextCall[k].gen) IN
    /\ contextCall[k].phase = "asked" /\ contextCall[k].tool \notin {"open", "close"}
    /\ context' = after
    /\ refs' = Kept(contextCall[k].gen)
    /\ contextCall' = [contextCall EXCEPT ![k] = IF Admits(k, after)
                           THEN [@ EXCEPT !.phase = "entered", !.scope = after[contextCall[k].ctx].scope]
                           ELSE IdleContextCall]
    /\ UNCHANGED <<menu, session, lastRef, document, reported>>

\* close_interaction_context: needs no session, and fences nothing.
Close(k) ==
    LET c == contextCall[k].ctx IN
    /\ contextCall[k].phase = "asked" /\ contextCall[k].tool = "close"
    /\ IF IsOpen(c) /\ context[c].owner = contextCall[k].who
       THEN context' = [context EXCEPT ![c] = Gone] /\ refs' = refs \ RefsOf({c})
       ELSE UNCHANGED <<context, refs>>
    /\ contextCall' = [contextCall EXCEPT ![k] = IdleContextCall]
    /\ UNCHANGED <<menu, session, lastRef, document, reported>>

-----------------------------------------------------------------------------
(* Preparing the device command: the second lock.                          *)

\* The refs a call names are looked up; what it consumes is taken at once.
PrepareWith(k, wanted, consumed) ==
    /\ contextCall' = [contextCall EXCEPT ![k] = IF \A s \in wanted : s # {}
                           THEN [@ EXCEPT !.phase = "prepared", !.carried = UNION wanted]
                           ELSE IdleContextCall]
    /\ refs' = IF \A s \in wanted : s # {} THEN refs \ consumed ELSE refs
    /\ UNCHANGED <<menu, session, context, lastRef, document, reported>>

Preparing(k, tools) == contextCall[k].phase = "entered" /\ contextCall[k].tool \in tools

\* prepare and bind name a process and a window, no refs; so do the native
\* commands without an element ref.
PrepareTarget(k) ==
    /\ Preparing(k, {"bind", "stage", "window", "desktop", "expand"})
    /\ PrepareWith(k, {}, {})

PrepareElement(k) ==
    Preparing(k, {"element"}) /\ PrepareWith(k, {Owned(k, contextCall[k].arg, "element")}, {})

TabOf(k) == Owned(k, contextCall[k].tab, "tab")

\* resolve_action and resolve_scope_ref: an element of the tab's live snapshot.
PageElement(k) == OnItsTab(k, contextCall[k].arg, "page")

PrepareInspect(k) ==
    \/ Preparing(k, {"inspect"}) /\ PrepareWith(k, {TabOf(k)}, {})
    \/ Preparing(k, {"continue"})
       /\ LET next == OnItsTab(k, contextCall[k].arg, "continuation")
          IN PrepareWith(k, {TabOf(k), next}, next)

PrepareNavigate(k) == Preparing(k, {"navigate"}) /\ PrepareWith(k, {TabOf(k)}, {})

PreparePageAction(k) ==
    Preparing(k, {"click", "type"}) /\ PrepareWith(k, {TabOf(k), PageElement(k)}, {})

\* pointer: the element, and for a drag another element of the same page.
PreparePointer(k) ==
    Preparing(k, {"pointer"}) /\ PrepareWith(k, {TabOf(k), PageElement(k)}, {})

\* resolve_dialog and complete_dialog.
DialogNamed(k) == OnItsTab(k, contextCall[k].arg, "dialog")

PrepareDialog(k) ==
    \/ Preparing(k, {"dialog"}) /\ PrepareWith(k, {TabOf(k)}, {})
    \/ Preparing(k, {"answer"})
       /\ PrepareWith(k, {TabOf(k), DialogNamed(k)}, {})

\* upload: the staged file is consumed whether or not the upload succeeds.
Files(k) == Owned(k, contextCall[k].file, "file")
PrepareUpload(k) ==
    Preparing(k, {"upload"})
        /\ PrepareWith(k, {TabOf(k), PageElement(k), Files(k)}, Files(k))

PrepareDownload(k) ==
    Preparing(k, {"download"})
        /\ PrepareWith(k, {TabOf(k), PageElement(k)}, {})

-----------------------------------------------------------------------------
(* The device, and what its answer changes.                                *)

\* execute_command: start_command takes whatever session there is now.
Start(k) ==
    /\ contextCall[k].phase = "prepared" /\ session.up
    /\ contextCall' = [contextCall EXCEPT ![k].phase = "sent", ![k].under = session.gen]
    /\ UNCHANGED <<menu, session, context, refs, lastRef, document, reported>>

\* The device runs the command; a navigation shows another document.
Execute(k) ==
    /\ contextCall[k].phase = "sent" /\ session.up /\ session.gen = contextCall[k].under
    /\ contextCall[k].tool = "navigate" => document < MaxDocument
    /\ document' = IF contextCall[k].tool = "navigate" THEN document + 1 ELSE document
    /\ contextCall' = [contextCall EXCEPT ![k].phase = "ran", ![k].doc = document']
    /\ UNCHANGED <<menu, session, context, refs, lastRef, reported>>

\* Refused, failed, cancelled or lost: the call ends, and what it consumed
\* stays consumed.
Fail(k) ==
    /\ contextCall[k].phase \in {"prepared", "sent", "ran"}
    /\ contextCall' = [contextCall EXCEPT ![k] = IdleContextCall]
    /\ UNCHANGED <<menu, session, context, refs, lastRef, document, reported>>

Answered(k, tools) == contextCall[k].phase = "ran" /\ contextCall[k].tool \in tools

\* What an answer leaves: refs kept, and refs minted if all of them have room.
AnswerCall(k, surviving, minted) ==
    /\ lastRef + Cardinality(minted) <= menu.refs
    /\ refs' = IF \A r \in minted : HasRoom(surviving \cup minted, r.ctx, r.kind) THEN surviving \cup minted ELSE surviving
    /\ lastRef' = lastRef + Cardinality(minted)
    /\ contextCall' = [contextCall EXCEPT ![k] = IdleContextCall]
    /\ UNCHANGED <<menu, session, context, document>>

\* A window snapshot, a staged file and a download mint in the scoped
\* registry, for the binding the call holds, whatever became of its context.
PublishScoped(k, kind) ==
    AnswerCall(k, refs, {NewRef(lastRef + 1, kind, k, 0, 0)}) /\ UNCHANGED reported
PublishWindow(k) == Answered(k, {"window"}) /\ PublishScoped(k, "element")
PublishStaged(k) == Answered(k, {"stage"}) /\ PublishScoped(k, "file")
PublishDownload(k) == Answered(k, {"download"}) /\ PublishScoped(k, "download")

\* mint_target and mint_tab: a tab bound twice has two refs.
BoundRefs(k) == {NewRef(lastRef + 1, "tab", k, 0, 0)}

PublishBound(k) ==
    /\ Answered(k, {"bind"})
    /\ AnswerCall(k, refs, BoundRefs(k)) /\ UNCHANGED reported

\* begin_snapshot, mint_action_element, mint_content_element, mint_continuation.
SnapshotRefs(k, more) ==
    {NewRef(lastRef + 1, "page", k, contextCall[k].tab, 0)}
        \cup IF more THEN {NewRef(lastRef + 2, "continuation", k, contextCall[k].tab, lastRef + 1)}
             ELSE {}

\* begin_snapshot: the tab ref must still be there; its pages die first.
PublishSnapshot(k) ==
    /\ Answered(k, {"inspect", "continue"})
    /\ IF TabOf(k) = {} THEN AnswerCall(k, refs, {})
       ELSE \E more \in BOOLEAN :
              AnswerCall(k, refs \ PagesOf(k), SnapshotRefs(k, more))
    /\ UNCHANGED reported

\* NavigationCompleted: the caller is told that the old page refs are dead.
PublishNavigation(k) ==
    /\ Answered(k, {"navigate"})
    /\ AnswerCall(k, IF TabOf(k) = {} THEN refs ELSE refs \ (PagesOf(k) \cup DialogsOf(k)), {})
    /\ reported' = IF TabOf(k) # {} /\ contextCall[k].doc > reported THEN contextCall[k].doc ELSE reported

PublishDialog(k) ==
    /\ Answered(k, {"dialog", "answer"})
    /\ IF TabOf(k) = {} THEN AnswerCall(k, refs, {})
       ELSE \/ /\ contextCall[k].tool = "dialog"
               /\ \E minted \in {{}, {NewRef(lastRef + 1, "dialog", k, contextCall[k].tab, 0)}} :
                     AnswerCall(k, IF minted = {} THEN refs ELSE refs \ DialogsOf(k), minted)
            \/ /\ contextCall[k].tool = "answer"
               /\ AnswerCall(k, refs \ DialogNamed(k), {})
    /\ UNCHANGED reported

\* click, type, pointer, upload and the native commands: nothing to publish.
PublishPlain(k) ==
    /\ Answered(k, {"click", "type", "pointer", "upload", "element", "desktop"})
    /\ AnswerCall(k, refs, {}) /\ UNCHANGED reported

\* expand_to_desktop_after_authorization, which validates again and drops a
\* context that lapsed meanwhile, without its refs.
Expanded(c, gen) == IF context[c].due \/ context[c].gen # gen THEN Gone
                    ELSE [context[c] EXCEPT !.scope = "desktop"]

\* The device has expanded the scope; the Hub's own record follows, when the
\* context is still the one that was validated.
PublishExpansion(k) ==
    LET c == contextCall[k].ctx IN
    /\ Answered(k, {"expand"})
    /\ context' = IF IsOpen(c) /\ context[c].owner = contextCall[k].who
                  THEN [context EXCEPT ![c] = Expanded(c, contextCall[k].gen)] ELSE context
    /\ contextCall' = [contextCall EXCEPT ![k] = IdleContextCall]
    /\ UNCHANGED <<menu, session, refs, lastRef, document, reported>>

-----------------------------------------------------------------------------
(* The world.                                                              *)

Connect ==
    /\ session.gen < MaxGeneration
    /\ session' = [gen |-> session.gen + 1, up |-> TRUE]
    /\ UNCHANGED <<menu, context, refs, lastRef, contextCall, document, reported>>

LoseSession ==
    /\ session.up /\ session' = [session EXCEPT !.up = FALSE]
    /\ UNCHANGED <<menu, context, refs, lastRef, contextCall, document, reported>>

\* is_expired: the idle timeout or the lifetime of a context is over.
Lapse(c) ==
    /\ IsOpen(c) /\ ~context[c].due /\ menu.lapse
    /\ context' = [context EXCEPT ![c].due = TRUE]
    /\ UNCHANGED <<menu, session, refs, lastRef, contextCall, document, reported>>

ContextsNext ==
    \/ Connect \/ LoseSession \/ \E c \in Contexts : Lapse(c)
    \/ \E k \in ContextCalls, o \in menu.people, c \in menu.contexts, t \in menu.tools : Ask(k, o, t, c)
    \/ \E k \in ContextCalls :
          \/ Open(k) \/ Enter(k) \/ Close(k) \/ PrepareTarget(k) \/ PrepareElement(k)
          \/ PrepareInspect(k) \/ PrepareNavigate(k) \/ PreparePageAction(k)
          \/ PreparePointer(k) \/ PrepareDialog(k) \/ PrepareUpload(k) \/ PrepareDownload(k)
          \/ Start(k) \/ Execute(k) \/ Fail(k)
          \/ PublishWindow(k) \/ PublishStaged(k) \/ PublishDownload(k) \/ PublishBound(k) \/ PublishSnapshot(k)
          \/ PublishNavigation(k) \/ PublishDialog(k) \/ PublishPlain(k)
          \/ PublishExpansion(k)

ContextsSpec == ContextsInit /\ [][ContextsNext]_contextVars

-----------------------------------------------------------------------------
HoldsRefs(k) == contextCall[k].phase \in {"prepared", "sent", "ran"}

(* What a call carries was minted for the client that makes it: for its    *)
(* context, in the generation in which the call found that context valid;  *)
(* while the context is open it is this client's                           *)
(* (ScopedBackendRefRegistry::resolve, BrowserRefRegistry::require_owned). *)
(* This is about the check.  Nothing compares that generation with the     *)
(* session the call then runs in: see RefsRunInTheirSession.               *)
CarriesItsOwn ==
    \A k \in ContextCalls : HoldsRefs(k) =>
        /\ \A r \in contextCall[k].carried : r.ctx = contextCall[k].ctx /\ r.gen = contextCall[k].gen
        /\ IsOpen(contextCall[k].ctx) => context[contextCall[k].ctx].owner = contextCall[k].who

(* Two calls never carry the same staged file or the same continuation:    *)
(* they are taken in the step that finds them (consume_many and            *)
(* consume_continuation under one lock).                                   *)
SpentOnce ==
    \A j, k \in ContextCalls : j # k /\ HoldsRefs(j) /\ HoldsRefs(k) =>
        \A r \in contextCall[j].carried \cap contextCall[k].carried : r.kind \notin {"file", "continuation"}

(* However inspections of a tab overlap, the live page refs of a tab ref    *)
(* are those of one snapshot, and so is its continuation (begin_snapshot). *)
OneSnapshotPerTab ==
    \A r, s \in refs :
        /\ r.kind = "page" /\ s.kind = "page" /\ r.tab = s.tab => r = s
        /\ r.kind = "page" /\ s.kind = "continuation" /\ r.tab = s.tab => s.snap = r.id

(* Once a navigation of the tab was reported, no page ref of an earlier     *)
(* document is live ("It invalidates existing page refs, so the next        *)
(* ref-based action requires a fresh snapshot").                           *)
PagesDieWithNavigation == \A r \in refs : r.kind = "page" => r.doc >= reported

(* The refs a call carries reach the device only in the session in which    *)
(* they were minted ("Agent reconnect never resurrects a prior browser        *)
(* target, tab, ref, or prepared backend session").  Refuted: no session     *)
(* fence stands between the check and the dispatch, which takes whatever     *)
(* session is live.                                                         *)
RefsRunInTheirSession ==
    \A k \in ContextCalls : contextCall[k].phase = "ran" => \A r \in contextCall[k].carried : r.gen = contextCall[k].under

\* The refs a call is checked against are of its client's own context and of the session
\* in which the check was made, a single-use ref is spent once and a tab has one snapshot,
\* however two calls interleave.  In which session the call then runs is not part of it.
ContextsSafe == CarriesItsOwn /\ SpentOnce /\ OneSnapshotPerTab
====
