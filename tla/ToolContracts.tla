--------------------------- MODULE ToolContracts ---------------------------
(***************************************************************************)
(* The contract of the native tools, from the arguments an MCP client      *)
(* sends to the call the Cua provider receives:                            *)
(*                                                                         *)
(*   v2_m1_northbound.rs  call_tool parses the arguments into a            *)
(*     DeviceCommand, prepare_contextual_command binds it to the client's  *)
(*     interaction context, authorize_final_command applies the policy;    *)
(*   v2_m1_backend.rs     map_command turns the command into a provider    *)
(*     tool call and validate_execution_budget bounds its duration.        *)
(*                                                                         *)
(* Arguments are abstracted to what the two layers tell apart: a field is  *)
(* given or not, an id is zero or positive, a size is a number against its *)
(* limit.  Coordinates, names and texts themselves do not matter.          *)
(***************************************************************************)
EXTENDS Integers, Sequences, TLC

CONSTANTS
    ToolTimeout,     \* tool_timeout of the adapter, in milliseconds
    PolicyTextLimit, \* max_utf8_bytes of a type_text rule, or MaxTypeText without one
    ToolRequests     \* sets of calls a client may make: the arguments each gives

MaxTypeText     == 32768      \* MAX_TYPE_TEXT_BYTES
MaxModifiers    == 5          \* MAX_KEYBOARD_MODIFIERS
MaxI32          == 2147483647
BudgetDivisor   == 5          \* EXECUTION_BUDGET_RESERVE_DIVISOR
MinReserve      == 2000       \* EXECUTION_BUDGET_MIN_RESERVE_MS
FixedDrain      == 2000       \* TYPE_TEXT_FIXED_DRAIN_MS
DefaultDelay    == 30         \* TYPE_TEXT_DEFAULT_DELAY_MS

ASSUME ToolTimeoutAssumption == ToolTimeout \in Nat
ASSUME PolicyTextAssumption == PolicyTextLimit \in 1..MaxTypeText

VARIABLES
    toolScope,   \* scope of the client's context: "closed", "window" or "desktop"
    toolCall,    \* the request being served and how far it has come
    providerCall \* the call the provider received, or NoProviderCall

toolVars == <<toolScope, toolCall, providerCall>>

Absent == -1

\* The arguments every request has; a tool's own requests override them.
BlankRequest ==
    [tool |-> "list_apps", ctx |-> FALSE, kind |-> "none", pid |-> Absent, wid |-> Absent,
     x |-> FALSE, y |-> FALSE, ref |-> FALSE, count |-> 1, mods |-> <<>>,
     delivery |-> "none", button |-> "none", action |-> "none", text |-> 1,
     delay |-> Absent, duration |-> 1, steps |-> Absent, width |-> 1, origin |-> 0,
     ident |-> "none", name |-> "none", key |-> TRUE, limits |-> TRUE]

Target(at, pid, wid) == [at |-> at, pid |-> pid, wid |-> wid]
NoTarget == Target("none", Absent, Absent)
BadTarget == Target("refused", Absent, Absent)
Positive(r) == r.pid > 0 /\ r.wid > 0

-----------------------------------------------------------------------------
(* Northbound: targets and options                                         *)

\* parse_pointer_target: desktop coordinates exclude, window ones require, the window.
ParsePointerTarget(r) ==
    LET space == IF r.kind # "none" THEN r.kind
                 ELSE IF r.pid # Absent \/ r.wid # Absent THEN "window_physical"
                 ELSE "desktop_physical"
    IN  CASE space = "desktop_physical" /\ r.pid = Absent /\ r.wid = Absent ->
                Target("desktop", Absent, Absent)
          [] space = "window_physical" /\ Positive(r) -> Target("point", r.pid, r.wid)
          [] OTHER -> BadTarget

\* parse_click_target: an element needs the context and its window and no coordinates.
ParseClickTarget(r) ==
    IF r.ref
    THEN IF r.ctx /\ r.kind = "none" /\ ~r.x /\ ~r.y /\ Positive(r)
         THEN Target("element", r.pid, r.wid) ELSE BadTarget
    ELSE IF r.x /\ r.y THEN ParsePointerTarget(r) ELSE BadTarget

\* parse_input_target, for type_text and keyboard_input.
ParseInputTarget(r) ==
    LET kind == IF r.kind # "none" THEN r.kind
                ELSE IF r.ref THEN "element"
                ELSE IF r.x \/ r.y THEN "window_point"
                ELSE IF r.pid # Absent \/ r.wid # Absent THEN "window"
                ELSE "desktop"
        point == r.x \/ r.y
    IN  CASE kind = "desktop" /\ r.pid = Absent /\ r.wid = Absent /\ ~point /\ ~r.ref ->
                Target("desktop", Absent, Absent)
          [] kind = "window" /\ r.pid > 0 /\ r.wid # 0 /\ ~point /\ ~r.ref ->
                Target("window", r.pid, r.wid)
          [] kind = "window_point" /\ Positive(r) /\ r.x /\ r.y /\ ~r.ref ->
                Target("point", r.pid, r.wid)
          [] kind = "element" /\ Positive(r) /\ ~point /\ r.ref ->
                Target("element", r.pid, r.wid)
          [] OTHER -> BadTarget

\* parse_scroll_target.
ParseScrollTarget(r) ==
    LET point == r.x \/ r.y
        kind == IF r.kind # "none" THEN r.kind
                ELSE IF r.pid # Absent /\ point THEN "window_point"
                ELSE IF r.pid # Absent \/ r.wid # Absent THEN "window"
                ELSE IF point THEN "desktop_point"
                ELSE "window"
    IN  CASE kind = "window" /\ r.pid > 0 /\ r.wid # 0 /\ ~point ->
                Target("window", r.pid, r.wid)
          [] kind = "window_point" /\ Positive(r) /\ r.x /\ r.y ->
                Target("point", r.pid, r.wid)
          [] kind = "desktop_point" /\ r.pid = Absent /\ r.wid = Absent /\ r.x /\ r.y ->
                Target("desktop", Absent, Absent)
          [] OTHER -> BadTarget

\* parse_keyboard_modifiers: at most MaxModifiers known names, none twice.
GoodModifiers(mods) ==
    /\ Len(mods) <= MaxModifiers
    /\ \A i \in DOMAIN mods : mods[i] \in {"meta", "shift", "alt", "control", "function"}
    /\ \A i, j \in DOMAIN mods : mods[i] = mods[j] => i = j

\* parse_pointer_button: left unless one is named.
Button(r) == IF r.button = "none" THEN "left" ELSE r.button

\* validate_element_click_options.
GoodClickOptions(r, target) ==
    IF target.at # "element" THEN r.action = "none"
    ELSE /\ r.count \in 1..2
         /\ r.count = 2 => Button(r) = "left" /\ r.action = "none" /\ r.mods = <<>>
         /\ r.action \notin {"none", "press"} => Button(r) = "left" /\ r.mods = <<>>

-----------------------------------------------------------------------------
(* Northbound: one operator per group of tools of call_tool.  Each yields  *)
(* the command, named as in DeviceCommand, or NoCommand for a refusal.     *)

NoCommand == [name |-> "Refused", request |-> BlankRequest, target |-> NoTarget]
Command(name, r, target) == [name |-> name, request |-> r, target |-> target]
Accept(ok, c) == IF ok THEN c ELSE NoCommand

\* An element reference is a scoped name: it means nothing without its context.
RefNeedsContext(r) == r.ref => r.ctx

\* The click arm: the plain form has coordinates only.
ParseClick(r) ==
    LET advanced == \/ r.ctx \/ r.kind # "none" \/ r.pid # Absent \/ r.wid # Absent \/ r.ref
                    \/ r.action # "none" \/ r.count # 1 \/ r.mods # <<>> \/ r.delivery # "none"
        target == ParseClickTarget(r)
    IN  IF ~advanced THEN Accept(r.x /\ r.y, Command("PointerClick", r, NoTarget))
        ELSE Accept(/\ target # BadTarget
                    /\ GoodClickOptions(r, target)
                    /\ GoodModifiers(r.mods),
                    Command("PointerClickAdvanced", r, target))

\* The drag arm: both ends use the same target fields.
ParseDrag(r) ==
    LET advanced == \/ r.ctx \/ r.kind # "none" \/ r.pid # Absent \/ r.wid # Absent
                    \/ r.mods # <<>> \/ r.delivery # "none" \/ r.steps # Absent
                    \/ r.button # "none"
        target == ParsePointerTarget(r)
    IN  IF ~advanced
        THEN Accept(r.duration \in 1..10000, Command("PointerDrag", r, NoTarget))
        ELSE Accept(r.duration <= 10000 /\ target # BadTarget /\ GoodModifiers(r.mods),
                    Command("PointerDragAdvanced", r, target))

\* The type_text arm.
ParseTypeText(r) ==
    LET advanced == \/ r.ctx \/ r.kind # "none" \/ r.pid # Absent \/ r.wid # Absent \/ r.x \/ r.y
                    \/ r.ref \/ r.delivery # "none" \/ r.delay # Absent
        target == ParseInputTarget(r)
    IN  IF r.text \notin 1..MaxTypeText THEN NoCommand
        ELSE IF ~advanced THEN Command("TypeText", r, NoTarget)
        ELSE Accept(RefNeedsContext(r) /\ target # BadTarget,
                    Command("TypeTextAdvanced", r, target))

\* The keyboard_input arm with validate_keyboard_key_input.
ParseKeyboard(r) ==
    LET target == ParseInputTarget(r)
    IN  Accept(r.key /\ RefNeedsContext(r) /\ GoodModifiers(r.mods) /\ target # BadTarget,
               Command("KeyboardInput", r, target))

\* The scroll arm; count is its amount.
ParseScroll(r) ==
    LET target == ParseScrollTarget(r)
    IN  Accept(r.count \in 1..50 /\ target # BadTarget, Command("Scroll", r, target))

\* validate_launch_args: a name of either kind, and none of them too long.
GoodLaunch(r) ==
    /\ "fits" \in {r.ident, r.name} \/ "large" \in {r.ident, r.name}
    /\ "large" \notin {r.ident, r.name}
    /\ r.limits

\* The arms that name one exact window: inspect, verify, activate, frame, menu,
\* set_ui_value and capture_region, and launch and terminate beside them.
ParseWindowTool(r) ==
    LET window == Target("window", r.pid, r.wid)
    IN  CASE r.tool = "inspect_window" ->
               Accept(Positive(r) /\ r.limits,
                      Command(IF r.ctx THEN "InspectWindowContextual" ELSE "InspectWindow", r, window))
          [] r.tool = "verify_ui_state" ->
               Accept(Positive(r) /\ r.limits /\ r.duration <= 10000,
                      Command(IF r.ctx THEN "VerifyUiStateContextual" ELSE "VerifyUiState", r, window))
          [] r.tool = "activate_window" ->
               Accept(r.pid > 0 /\ r.wid # 0, Command("ActivateWindow", r, window))
          [] r.tool = "set_window_frame" ->
               Accept(Positive(r) /\ r.width > 0, Command("SetWindowFrame", r, window))
          [] r.tool = "invoke_menu" ->
               Accept(Positive(r) /\ r.limits, Command("InvokeMenu", r, window))
          [] r.tool = "launch_application" ->
               Accept(GoodLaunch(r), Command("LaunchApplication", r, NoTarget))
          [] r.tool = "terminate_application" ->
               Accept(r.pid > 0 /\ r.limits, Command("TerminateApplication", r, NoTarget))

\* The arms from clipboard_read on; pointer position, pointer move and set_ui_value
\* have a mandatory context_id.
ParseScopedTool(r) ==
    LET window == Target("window", r.pid, r.wid)
    IN  CASE r.tool = "clipboard_read"  -> Command("ClipboardRead", r, NoTarget)
          [] r.tool = "clipboard_write" -> Accept(r.limits, Command("ClipboardWrite", r, NoTarget))
          [] r.tool = "get_pointer_position" ->
               Accept(r.ctx, Command("PointerPosition", r, NoTarget))
          [] r.tool = "move_pointer" -> Accept(r.ctx, Command("MovePointer", r, NoTarget))
          [] r.tool = "set_ui_value" ->
               Accept(r.ctx /\ r.ref /\ Positive(r) /\ r.limits, Command("SetUiValue", r, window))
          [] r.tool = "capture_region" ->
               Accept(Positive(r) /\ r.width > 0, Command("CaptureRegion", r, window))
          [] r.tool = "expand_interaction_scope" ->
               Accept(r.ctx /\ r.limits, Command("ExpandInteractionScope", r, NoTarget))

WindowInputTools == {"inspect_window", "verify_ui_state", "activate_window", "set_window_frame",
                     "invoke_menu", "launch_application", "terminate_application"}
ScopedTools == {"clipboard_read", "clipboard_write", "get_pointer_position", "move_pointer",
                "set_ui_value", "capture_region", "expand_interaction_scope"}

\* The parse of call_tool, by tool.
ParseTool(r) ==
    CASE r.tool = "click"          -> ParseClick(r)
      [] r.tool = "drag"           -> ParseDrag(r)
      [] r.tool = "type_text"      -> ParseTypeText(r)
      [] r.tool = "keyboard_input" -> ParseKeyboard(r)
      [] r.tool = "scroll"         -> ParseScroll(r)
      [] r.tool = "screenshot"     -> Accept(r.ctx, Command("ScreenshotContextual", r, NoTarget))
      [] r.tool \in WindowInputTools    -> ParseWindowTool(r)
      [] r.tool \in ScopedTools    -> ParseScopedTool(r)
      [] OTHER                     -> Command("ListApplications", r, NoTarget)

-----------------------------------------------------------------------------
(* Northbound: the interaction context of a command                        *)

PlainDesktopForms == {"Screenshot", "PointerClick", "PointerDrag", "TypeText"}

\* command_requires_desktop_scope.
RequiresDesktop(c) ==
    \/ c.name \in {"ScreenshotContextual", "MovePointer"}
    \/ c.name = "PointerPosition" /\ c.request.ctx
    \/ /\ c.name \in {"PointerClickAdvanced", "PointerDragAdvanced", "TypeTextAdvanced",
                      "KeyboardInput", "Scroll"}
       /\ c.target.at = "desktop"

\* command_requires_window_scope.
RequiresWindow(c) ==
    \/ c.name \in {"InspectWindowContextual", "VerifyUiStateContextual", "SetUiValue"}
    \/ /\ c.request.ctx
       /\ \/ c.name \in {"CaptureRegion", "SetWindowFrame", "InvokeMenu"}
          \/ /\ c.name \in {"PointerClickAdvanced", "PointerDragAdvanced", "TypeTextAdvanced",
                            "KeyboardInput", "Scroll"}
             /\ c.target.at # "desktop"

\* prepare_contextual_command: the plain desktop forms are refused; a command that
\* names a context is checked against its scope; any other passes as it is.
Prepared(c) ==
    /\ c.name \notin PlainDesktopForms
    /\ c.request.ctx =>
         /\ toolScope # "closed"
         /\ RequiresDesktop(c) => toolScope = "desktop"
         /\ RequiresWindow(c) => toolScope = "window"

\* The rule of SemanticConstraintPolicy.evaluate for text input.
WithinPolicy(c) ==
    c.name \in {"TypeText", "TypeTextAdvanced"} => c.request.text <= PolicyTextLimit

-----------------------------------------------------------------------------
(* Backend: map_command                                                    *)

\* parse_delivery_mode's default, applied before the command leaves the Hub.
DeliveryOf(r) == IF r.delivery = "none" THEN "background" ELSE r.delivery
DelayOf(r) == IF r.delay = Absent THEN DefaultDelay ELSE r.delay

NoProviderCall == [tool |-> "none"]

\* A provider call: its tool, the scope and session it names, and what it carries.
ProviderCall(tool, scope, c) ==
    [tool |-> tool, scope |-> scope, session |-> c.request.ctx, at |-> c.target.at,
     pid |-> c.target.pid, wid |-> c.target.wid, token |-> c.request.ref,
     delivery |-> DeliveryOf(c.request), command |-> c]

\* pointer_target_arguments, input_target_arguments, scroll_target_arguments: a
\* foreground delivery needs an exact window.
TargetArguments(c) ==
    LET foreground == DeliveryOf(c.request) = "foreground"
    IN  CASE c.target.at = "desktop" -> ~foreground
          [] c.target.at = "window" -> c.target.pid # 0 /\ c.target.wid # 0
                                       /\ (foreground => c.target.wid # Absent)
          [] OTHER -> c.target.pid > 0 /\ c.target.wid > 0

ScopeOf(c) == IF c.target.at = "desktop" THEN "desktop" ELSE "window"

\* The PointerClick and PointerClickAdvanced arms.
MapClick(c) ==
    LET r == c.request
        element == c.target.at = "element"
    IN  IF c.name = "PointerClick" THEN ProviderCall("click", "desktop", c)
        ELSE IF \/ r.count \notin 1..3
                \/ ~GoodModifiers(r.mods)
                \/ r.mods # <<>> /\ DeliveryOf(r) # "foreground"
                \/ ~TargetArguments(c)
                \/ element /\ r.count = 2
                     /\ (Button(r) # "left" \/ r.action # "none" \/ r.mods # <<>>)
                \/ element /\ r.count = 3
                \/ ~element /\ r.action # "none"
        THEN NoProviderCall
        ELSE ProviderCall(IF element /\ r.count = 2 THEN "double_click" ELSE "click", ScopeOf(c), c)

\* The drag arms with drag_target_arguments.
MapDrag(c) ==
    LET r == c.request
        steps == IF r.steps = Absent THEN 20 ELSE r.steps
    IN  IF c.name = "PointerDrag"
        THEN IF r.duration \in 1..10000 THEN ProviderCall("drag", "desktop", c) ELSE NoProviderCall
        ELSE IF /\ r.duration <= 10000 /\ steps \in 1..200
                /\ GoodModifiers(r.mods)
                /\ TargetArguments(c)
        THEN ProviderCall("drag", ScopeOf(c), c) ELSE NoProviderCall

\* The text, keyboard and scroll arms.
MapInput(c) ==
    LET r == c.request
    IN  CASE c.name = "TypeText" -> ProviderCall("type_text", "desktop", c)
          [] c.name = "TypeTextAdvanced" ->
               IF r.text \in 1..MaxTypeText /\ DelayOf(r) <= 200 /\ TargetArguments(c)
               THEN ProviderCall("type_text", ScopeOf(c), c) ELSE NoProviderCall
          [] c.name = "KeyboardInput" ->
               IF r.key /\ GoodModifiers(r.mods) /\ TargetArguments(c)
               THEN ProviderCall("press_key", ScopeOf(c), c) ELSE NoProviderCall
          [] c.name = "Scroll" ->
               IF r.count \in 1..50 /\ TargetArguments(c)
               THEN ProviderCall("scroll", ScopeOf(c), c) ELSE NoProviderCall

\* The arms for windows, applications and menus, with map_inspect_window and
\* map_verify_ui_state.
MapWindow(c) ==
    LET r == c.request
        exact == c.target.pid > 0 /\ c.target.wid > 0
        send(ok, tool) == IF ok THEN ProviderCall(tool, "window", c) ELSE NoProviderCall
    IN  CASE c.name \in {"InspectWindow", "InspectWindowContextual"} ->
               send(exact /\ r.limits, "get_window_state")
          [] c.name \in {"VerifyUiState", "VerifyUiStateContextual"} ->
               send(exact /\ r.limits /\ r.duration <= 10000, "verify_state")
          [] c.name = "ActivateWindow" ->
               send(c.target.pid # 0 /\ c.target.wid # 0, "bring_to_front")
          [] c.name = "SetWindowFrame" -> send(exact /\ r.width > 0, "set_window_frame")
          [] c.name = "InvokeMenu" -> send(exact /\ r.limits, "invoke_menu")
          [] c.name = "LaunchApplication" ->
               send("fits" \in {r.ident, r.name} /\ r.limits, "launch_app")
          [] c.name = "TerminateApplication" -> send(r.pid > 0, "kill_app")

\* The remaining arms.  The region of a capture must end within 32-bit coordinates.
MapScoped(c) ==
    LET r == c.request
        exact == c.target.pid > 0 /\ c.target.wid > 0
        send(ok, tool, scope) == IF ok THEN ProviderCall(tool, scope, c) ELSE NoProviderCall
    IN  CASE c.name = "ClipboardRead"   -> send(TRUE, "clipboard_read", "none")
          [] c.name = "ClipboardWrite"  -> send(r.limits, "clipboard_write", "none")
          [] c.name = "PointerPosition" -> send(TRUE, "get_cursor_position", "none")
          [] c.name = "MovePointer"     -> send(TRUE, "move_cursor", "desktop")
          [] c.name = "SetUiValue"      -> send(exact /\ r.limits, "set_value", "window")
          [] c.name = "CaptureRegion"   ->
               send(exact /\ r.width > 0 /\ r.width <= MaxI32 - r.origin, "zoom", "window")
          [] c.name = "ExpandInteractionScope" -> send(r.limits, "escalate_session", "none")
          [] c.name = "ScreenshotContextual" -> send(TRUE, "get_desktop_state", "desktop")
          [] OTHER -> send(TRUE, "list_apps", "none")

InputCommands == {"TypeText", "TypeTextAdvanced", "KeyboardInput", "Scroll"}
WindowCommands == {"InspectWindow", "InspectWindowContextual", "VerifyUiState",
                   "VerifyUiStateContextual", "ActivateWindow", "SetWindowFrame", "InvokeMenu",
                   "LaunchApplication", "TerminateApplication"}

MapCommand(c) ==
    CASE c.name \in {"PointerClick", "PointerClickAdvanced"} -> MapClick(c)
      [] c.name \in {"PointerDrag", "PointerDragAdvanced"} -> MapDrag(c)
      [] c.name \in InputCommands -> MapInput(c)
      [] c.name \in WindowCommands -> MapWindow(c)
      [] OTHER -> MapScoped(c)

-----------------------------------------------------------------------------
(* Backend: the execution budget                                           *)

Larger(a, b) == IF a > b THEN a ELSE b
Smaller(a, b) == IF a < b THEN a ELSE b

\* Mutant: the whole timeout counts as budget.
EffectiveBudgetNoReserve == ToolTimeout

\* effective_execution_budget_ms.
EffectiveBudget ==
    ToolTimeout - Smaller(Larger(ToolTimeout \div BudgetDivisor, MinReserve), ToolTimeout)

\* type_text_required_budget_ms: the slowest of the three platforms, for every scalar.
TypeTextBudget(text, delay) ==
    text * Larger(24 + Larger(delay, 8), Larger(28 + delay, 10 + delay)) + FixedDrain

\* semantic_execution_budget_ms, 0 for a command without a pace of its own.
RequiredBudget(c) ==
    CASE c.name \in {"TypeText", "TypeTextAdvanced"} ->
           TypeTextBudget(c.request.text, DelayOf(c.request))
      [] c.name \in {"PointerDrag", "PointerDragAdvanced", "VerifyUiState",
                     "VerifyUiStateContextual"} -> c.request.duration
      [] OTHER -> 0

-----------------------------------------------------------------------------
(* The steps of a call                                                     *)

IdleToolCall == [stage |-> "idle"]

ToolsInit ==
    /\ toolScope = "closed"
    /\ toolCall = IdleToolCall
    /\ providerCall = NoProviderCall

\* call_tool reads the arguments.
ReceiveTool ==
    /\ toolCall.stage = "idle"
    /\ \E i \in DOMAIN ToolRequests : \E given \in ToolRequests[i] :
         LET c == ParseTool(given @@ BlankRequest)
         IN  /\ c # NoCommand
             /\ toolCall' = [stage |-> "parsed", command |-> c]
    /\ UNCHANGED <<toolScope, providerCall>>

\* prepare_contextual_command and authorize_final_command; a refusal ends the call.
PrepareTool ==
    /\ toolCall.stage = "parsed"
    /\ toolCall' = IF Prepared(toolCall.command) /\ WithinPolicy(toolCall.command)
                   THEN [stage |-> "prepared", command |-> toolCall.command,
                         binding |-> IF toolCall.command.request.ctx THEN toolScope ELSE "none"]
                   ELSE IdleToolCall
    /\ UNCHANGED <<toolScope, providerCall>>

\* CuaMcpAdapter.execute up to the provider: the mapping, then the budget.
MapTool ==
    /\ toolCall.stage = "prepared"
    /\ LET c == toolCall.command
           sent == MapCommand(c)
       IN  IF sent = NoProviderCall \/ RequiredBudget(c) > EffectiveBudget
           THEN toolCall' = IdleToolCall /\ UNCHANGED providerCall
           ELSE toolCall' = [toolCall EXCEPT !.stage = "sent"] /\ providerCall' = sent
    /\ UNCHANGED toolScope

\* The answer comes back.  A successful escalation widens the context that is still open.
FinishTool ==
    /\ toolCall.stage = "sent"
    /\ toolScope' = IF toolCall.command.name = "ExpandInteractionScope" /\ toolScope = "window"
                    THEN "desktop" ELSE toolScope
    /\ toolCall' = IdleToolCall
    /\ providerCall' = NoProviderCall

\* The client opens a context, or closes it (its other calls may do so at any time).
OpenScope == toolScope = "closed" /\ toolScope' = "window" /\ UNCHANGED <<toolCall, providerCall>>
CloseScope == toolScope # "closed" /\ toolScope' = "closed" /\ UNCHANGED <<toolCall, providerCall>>

ToolsNext == ReceiveTool \/ PrepareTool \/ MapTool \/ FinishTool \/ OpenScope \/ CloseScope
ToolsSpec == ToolsInit /\ [][ToolsNext]_toolVars

-----------------------------------------------------------------------------
(* Properties                                                              *)

\* What reaches the provider is a route the contract knows, whichever of the two
\* layers had to refuse the others: an element token comes with its session and its
\* exact window; foreground delivery and a modified click name an exact window; a
\* session is asked for desktop routes only when its context was desktop-scoped when
\* the command was bound, and for window routes only when it was window-scoped
\* (call_tool, prepare_contextual_command and map_command agree).
RoutesAreExact ==
    toolCall.stage = "sent" =>
      LET sent == providerCall
          r == sent.command.request
          exact == sent.pid > 0 /\ sent.wid > 0
      IN  /\ sent.token => sent.session /\ exact
          /\ sent.at \in {"desktop", "point", "window", "element"} /\ r.delivery = "foreground"
               => exact
          /\ sent.tool = "click" /\ r.mods # <<>> => r.delivery = "foreground" /\ exact
          /\ sent.session /\ sent.scope = "desktop" => toolCall.binding = "desktop"
          /\ sent.session /\ sent.scope = "window" => toolCall.binding = "window"

\* Text is typed in full before the tool timeout fires on every platform the provider
\* runs on, with at least a fifth of the timeout and two seconds left for the answer:
\* otherwise the call would be cut half-way and end indeterminate
\* (validate_execution_budget).
Pace(platform, delay) ==
    CASE platform = "macos"   -> 24 + Larger(delay, 8)
      [] platform = "windows" -> 28 + delay
      [] platform = "linux"   -> 10 + delay
InputFitsItsTimeout ==
    providerCall.tool = "type_text" =>
      LET r == providerCall.command.request
      IN  \A platform \in {"macos", "windows", "linux"} :
            LET end == r.text * Pace(platform, DelayOf(r)) + FixedDrain
            IN  5 * (ToolTimeout - end) >= ToolTimeout /\ ToolTimeout - end >= 2000

\* "Desktop-scoped northbound input requires an interaction context": no call reaches
\* the provider with desktop scope and no session (prepare_contextual_command).  The
\* code checks the plain forms only, see the README.
DesktopNeedsAContext ==
    toolCall.stage = "sent" /\ providerCall.scope = "desktop" => providerCall.session

\* What the tools hand to the provider is a route both layers allow and fits its timeout.
ToolsSafe == RoutesAreExact /\ InputFitsItsTimeout
=============================================================================
