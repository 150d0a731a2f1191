-------------------------- MODULE BrowserContracts --------------------------
(***************************************************************************)
(* The contract of the browser tools, from a client's request to the       *)
(* result it is told:                                                      *)
(*                                                                         *)
(*   v2_browser.rs            validate of each request, at the Hub;        *)
(*   v2_browser_runtime.rs    the command the Hub signs and the results    *)
(*     that may answer it;                                                 *)
(*   v2_browser_execute.rs    the Agent's validate_command, map_command    *)
(*     and normalize_completed around one provider call;                   *)
(*   v2_browser_normalize.rs  bindings and snapshots.                      *)
(*                                                                         *)
(* Sizes are numbers against their limits; refs, handles, URLs and names   *)
(* are reduced to whether they are well formed.  What the provider did is  *)
(* recorded against what it was asked: each part of its deed is "asked" or *)
(* "other", and a reply can only echo a part of the deed or omit it.       *)
(***************************************************************************)
EXTENDS Integers, FiniteSets, TLC

CONSTANT BrowserAsks  \* sets of requests a client may make: the fields each gives

MaxHubName    == 128      \* MAX_BROWSER_PROFILE_NAME_BYTES
MaxCuaName    == 64       \* MAX_CUA_ISOLATED_PROFILE_NAME_BYTES
MaxText       == 65536    \* MAX_BROWSER_TEXT_BYTES
MaxPrompt     == 16384    \* MAX_BROWSER_PROMPT_TEXT_BYTES
MaxDelta      == 100000   \* MAX_BROWSER_SCROLL_DELTA_CSS_PX
MaxFiles      == 32       \* MAX_BROWSER_UPLOAD_FILES
MaxDownload   == 16777216 \* MAX_BROWSER_DOWNLOAD_BYTES
MaxEvidence   == 8

VARIABLES
    browserAsk,  \* the request being served
    browserAt,   \* "idle", "asked", "sent", "called", "answered", "told"
    browserArgs, \* the arguments the provider received
    browserDeed, \* what the provider did and how it answered
    browserTold  \* what the Agent reports, then what the caller is told

browserVars == <<browserAsk, browserAt, browserArgs, browserDeed, browserTold>>

Unset == "unset"
Given(v) == v # Unset

\* The fields of a request; the requests of a kind override those they have.
BlankAsk ==
    [kind |-> "bind", refs |-> TRUE, pid |-> 1, window |-> "some", launch |-> FALSE,
     profile |-> "isolated_new", name |-> -1, spot |-> "element", route |-> "trusted",
     size |-> 1, replace |-> FALSE, dialog |-> Unset, verb |-> "inspect", prompt |-> -1,
     delivery |-> "background", gesture |-> "hover", dest |-> Unset, delta |-> 0,
     scope |-> Unset, query |-> -1, page |-> Unset, shot |-> FALSE, url |-> "http",
     files |-> <<1, TRUE>>, plain |-> TRUE]

BlankArgs ==
    [tool |-> "none", tab |-> Unset, launch |-> Unset, window |-> Unset, name |-> Unset,
     route |-> Unset, spot |-> Unset, dialog |-> Unset, delivery |-> Unset,
     prompt |-> Unset, delta |-> Unset, dest |-> Unset, scope |-> Unset, query |-> Unset,
     page |-> Unset, shot |-> FALSE]

Asked == [tab |-> "asked", url |-> "asked", dialog |-> "asked", verb |-> "asked",
          route |-> "asked", landed |-> TRUE]

BlankReply ==
    [form |-> "none", status |-> "ok", tab |-> "omitted", url |-> "omitted",
     dropped |-> FALSE, dialog |-> "omitted", verb |-> "omitted", present |-> "omitted",
     page |-> "omitted", effect |-> "omitted", route |-> "omitted", closed |-> TRUE,
     evidence |-> 0, escalation |-> "none", delivery |-> "none", shot |-> "none",
     coded |-> TRUE, prepared |-> "omitted", effects |-> "omitted", quality |-> "exact",
     mutation |-> TRUE, mode |-> "omitted", unique |-> TRUE, acts |-> TRUE,
     omitted |-> "fits"]

NoDeed == [did |-> Asked, reply |-> BlankReply]
NothingTold == [kind |-> "none", effect |-> "none", result |-> "none"]
TellBrowser(kind) == [NothingTold EXCEPT !.kind = kind]

-----------------------------------------------------------------------------
(* The Hub: validate of each request                                       *)

\* validate_profile_name
ProfileName(size, plain) == size \in 1..MaxHubName /\ plain

\* BrowserPrepareRequest::validate: a name only for a named profile; an existing
\* profile is attached by its window and nothing is launched for it.
HubPrepare(r) ==
    /\ r.pid # 0
    /\ r.profile = "isolated_new" => r.name = -1
    /\ r.profile = "isolated_named" => ProfileName(r.name, r.plain)
    /\ r.profile = "existing" => Given(r.window) /\ ~r.launch /\ r.name = -1

HubBind(r) == r.pid # 0 /\ r.window = "some"

\* A continuation names its own scope and query.
HubInspect(r) ==
    /\ r.query # 0
    /\ Given(r.page) => ~Given(r.scope) /\ r.query = -1

\* validate_browser_url
AllowedUrl(url) == url \in {"http", "about"}
HubNavigate(r) == AllowedUrl(r.url)

HubClick(r) == r.spot = "viewport" => r.route = "trusted"

HubType(r) == r.size <= MaxText /\ (r.size = 0 => r.replace)

HubDialog(r) ==
    IF r.verb = "inspect"
    THEN ~Given(r.dialog) /\ r.prompt = -1 /\ r.delivery = "background"
    ELSE Given(r.dialog) /\ (r.prompt # -1 => r.verb = "accept" /\ r.prompt <= MaxPrompt)

HubPointer(r) ==
    /\ r.delta <= MaxDelta
    /\ CASE r.gesture = "drag" -> Given(r.dest)
         [] r.gesture = "scroll" -> ~Given(r.dest) /\ r.delta # 0
         [] OTHER -> ~Given(r.dest) /\ r.delta = 0

\* The refs of an upload are distinct: files is how many, and whether they differ.
HubUpload(r) == r.files[1] \in 1..MaxFiles /\ r.files[2]

\* validate_transfer_basename, and the bound on the bytes.
HubDownload(r) == r.plain /\ r.size \in 1..MaxDownload

HubAccepts(r) ==
    /\ r.refs
    /\ CASE r.kind = "prepare" -> HubPrepare(r)   [] r.kind = "bind" -> HubBind(r)
         [] r.kind = "inspect" -> HubInspect(r)   [] r.kind = "navigate" -> HubNavigate(r)
         [] r.kind = "click" -> HubClick(r)       [] r.kind = "type" -> HubType(r)
         [] r.kind = "dialog" -> HubDialog(r)     [] r.kind = "pointer" -> HubPointer(r)
         [] r.kind = "upload" -> HubUpload(r)     [] OTHER -> HubDownload(r)

-----------------------------------------------------------------------------
(* The Agent: validate_command                                             *)

AgentPrepare(r) ==
    /\ r.pid # 0
    /\ r.profile = "existing" => Given(r.window)
    /\ r.profile = "isolated_named" => r.name \in 1..MaxCuaName /\ r.plain

AgentDialog(r) ==
    IF r.verb = "inspect"
    THEN ~Given(r.dialog) /\ r.prompt = -1 /\ r.delivery = "background"
    ELSE Given(r.dialog) /\ (r.prompt # -1 => r.verb = "accept" /\ r.prompt <= MaxPrompt)

\* Only a drag has a destination; a scroll of nothing is not refused here.
AgentPointer(r) == r.delta <= MaxDelta /\ (Given(r.dest) <=> r.gesture = "drag")

AgentClick(r) == r.spot = "viewport" => r.route = "trusted"
AgentNavigate(r) == AllowedUrl(r.url)
AgentTransfer(r) ==
    IF r.kind = "upload" THEN r.files[1] \in 1..MaxFiles
                         ELSE r.plain /\ r.size \in 1..MaxDownload

AgentAccepts(r) ==
    CASE r.kind = "prepare" -> AgentPrepare(r) [] r.kind = "bind" -> HubBind(r)
      [] r.kind = "navigate" -> AgentNavigate(r) [] r.kind = "click" -> AgentClick(r)
      [] r.kind = "type" -> r.size <= MaxText  [] r.kind = "dialog" -> AgentDialog(r)
      [] r.kind = "pointer" -> AgentPointer(r) [] r.kind \in {"upload", "download"} -> AgentTransfer(r)
      [] OTHER -> TRUE

-----------------------------------------------------------------------------
(* The Agent: map_command                                                  *)

Call(tool) == [BlankArgs EXCEPT !.tool = tool]
OnTab(tool) == [Call(tool) EXCEPT !.tab = "asked"]    \* target_tab_args

\* An existing profile passes its window and strategy, never the launch switch.
MapPrepare(r) ==
    IF r.profile = "existing"
    THEN [Call("browser_prepare") EXCEPT !.window = r.window]
    ELSE [Call("browser_prepare") EXCEPT
             !.launch = IF r.launch THEN "yes" ELSE "no",
             !.name = IF r.profile = "isolated_named" THEN "given" ELSE Unset]

MapBind(r) == [Call("get_browser_state") EXCEPT !.window = r.window]

MapInspect(r) ==
    [OnTab("get_browser_state") EXCEPT !.scope = r.scope, !.page = r.page, !.shot = r.shot,
        !.query = IF r.query = -1 THEN Unset ELSE "given"]

MapBrowserClick(r) == [OnTab("browser_click") EXCEPT !.route = r.route, !.spot = r.spot]

\* Inspection carries no way of resolving; the delivery goes with a resolution only.
MapDialog(r) ==
    [OnTab("browser_dialog") EXCEPT !.dialog = r.dialog,
        !.delivery = IF r.verb = "inspect" THEN Unset ELSE r.delivery,
        !.prompt = IF r.prompt = -1 THEN Unset ELSE "given"]

\* The deltas of a drag are dropped.
MapPointer(r) ==
    [OnTab("browser_pointer") EXCEPT !.route = r.route, !.dest = r.dest,
        !.delta = IF r.gesture = "scroll" THEN "given" ELSE Unset]

MapBrowserCommand(r) ==
    CASE r.kind = "prepare" -> MapPrepare(r) [] r.kind = "bind" -> MapBind(r)
      [] r.kind = "inspect" -> MapInspect(r) [] r.kind = "click" -> MapBrowserClick(r)
      [] r.kind = "dialog" -> MapDialog(r)   [] r.kind = "pointer" -> MapPointer(r)
      [] r.kind = "type" -> OnTab("browser_type")
      [] OTHER -> OnTab("browser_navigate")

-----------------------------------------------------------------------------
(* The provider                                                            *)

Either == {"asked", "other"}

\* What may go wrong in a deed: the provider works on another tab, document or
\* dialog than it was asked to, by another route, or nothing comes of it.
Deeds(r) ==
    CASE r.kind = "navigate" -> [tab : Either, url : Either]
      [] r.kind = "dialog" /\ r.verb # "inspect" -> [tab : Either, dialog : Either, verb : Either]
      [] r.kind \in {"click", "type", "pointer"} -> [tab : Either, route : Either, landed : BOOLEAN]
      [] r.kind = "inspect" \/ (r.kind = "dialog" /\ r.verb = "inspect") -> [tab : Either]
      [] OTHER -> [tab : {"asked"}]

Echo(v) == {v, "omitted"}
Statuses == {"ok", "other"}

\* A closed action result names the route it took; it has no field for the tab,
\* so it reads the same whichever tab was worked on.
ClosedReplies(d) ==
    [form : {"closed"}, route : Echo(d.route), closed : BOOLEAN,
     effect : {"unverifiable", "omitted", "strange"} \cup
              (IF d.landed THEN {"confirmed", "partial"} ELSE {"suspected_noop", "refused"}),
     evidence : IF d.landed THEN {0, 1, MaxEvidence + 1} ELSE {0},
     escalation : {"none", "page", "other"},
     delivery : {"none", "background", "foreground"}]

\* The earlier form of an action's result names the tab, and no route.
PlainReplies(d) == [form : {"plain"}, status : Statuses, tab : Echo(d.tab)]

OwnReplies(r, d) ==
    CASE r.kind \in {"click", "type", "pointer"} -> ClosedReplies(d) \cup PlainReplies(d)
      [] r.kind = "navigate" ->
            [form : {"plain"}, status : Statuses, tab : Echo(d.tab), url : Echo(d.url),
             dropped : BOOLEAN]
      [] r.kind = "dialog" /\ r.verb = "inspect" ->
            [form : {"plain"}, status : Statuses, tab : Echo(d.tab),
             present : {"omitted", "yes", "no"}, dialog : {"omitted", "seen"},
             page : {"omitted", "alert", "strange"}]
      [] r.kind = "dialog" /\ r.verb # "inspect" ->
            [form : {"plain"}, status : Statuses, tab : Echo(d.tab), dialog : Echo(d.dialog),
             verb : Echo(d.verb)]
      [] r.kind = "prepare" ->
            [form : {"plain"}, status : Statuses, prepared : {"yes", "no", "omitted"},
             effects : {"omitted", "known", "unknown"}]
      [] r.kind = "bind" ->
            [form : {"plain"}, status : Statuses, mode : {"bind", "snapshot"},
             quality : {"exact", "ambiguous"}, mutation : BOOLEAN, unique : BOOLEAN]
      [] OTHER ->
            [form : {"plain"}, status : Statuses, mode : {"bind", "snapshot"},
             tab : Echo(d.tab), unique : BOOLEAN, acts : BOOLEAN,
             omitted : {"fits", "overflows"}, shot : {"none", "valid", "invalid"}]

CommonReplies ==
    [form : {"lost", "timed_out", "cancelled", "tool_error", "backend_error"}]
        \cup [form : {"refused"}, coded : BOOLEAN]

-----------------------------------------------------------------------------
(* The Agent: normalize_completed                                          *)

\* Mutant: the status alone, whatever it is the status of.
StatusOnly(reply) == reply.status = "ok"

\* require_exact_target_tab_ok
ExactTab(reply) == reply.status = "ok" /\ reply.tab = "asked"

\* normalize_browser_action_result, as the outcome it returns or "invalid".
ActionResult(reply) ==
    IF \/ ~reply.closed \/ reply.route # "asked" \/ reply.effect = "omitted"
       \/ reply.escalation = "other" \/ (reply.escalation = "page" /\ reply.effect # "unverifiable")
       \/ reply.delivery = "foreground" \/ reply.evidence > MaxEvidence
    THEN "invalid"
    ELSE CASE reply.effect = "confirmed" /\ reply.evidence > 0 -> "confirmed"
           [] reply.effect = "unverifiable" -> "unverifiable"
           [] OTHER -> "invalid"

\* is_closed_action_result, then one form or the other.
Acted(reply) ==
    IF reply.effect # "omitted" \/ reply.route # "omitted" THEN ActionResult(reply)
    ELSE IF ExactTab(reply) THEN "plain" ELSE "invalid"

\* The effect a click reports: an event dispatched to the page proves nothing.
ClickEffect(r, ending) ==
    CASE ending = "confirmed" -> "dispatched"
      [] ending = "unverifiable" -> "unverifiable"
      [] OTHER -> IF r.route = "dom_event" THEN "unverifiable" ELSE "dispatched"

Navigated(reply) == ExactTab(reply) /\ reply.url = "asked" /\ reply.dropped

\* An observation is consistent; a resolution proves which dialog and what was done.
DialogDone(r, reply) ==
    /\ ExactTab(reply)
    /\ IF r.verb = "inspect"
       THEN /\ reply.present # "omitted"
            /\ (reply.present = "yes") <=> (reply.dialog # "omitted")
            /\ (reply.present = "yes") <=> (reply.page # "omitted")
            /\ reply.page # "strange"
       ELSE reply.dialog = "asked" /\ reply.verb = "asked"

\* normalize_prepare_side_effect_count: every side effect is one of the known ones.
PreparedBrowser(reply) == reply.status = "ok" /\ reply.prepared # "omitted" /\ reply.effects = "known"

\* normalize_cua_browser_binding
Bound(reply) ==
    /\ reply.status = "ok"
    /\ reply.mode = "bind"
    /\ reply.quality = "exact"
    /\ reply.mutation
    /\ reply.unique

\* normalize_ref_array: the refs are distinct and an action ref has an action.
RefsAreUsable(reply) == reply.unique /\ reply.acts

\* normalize_screenshot: asked for, it must be there; there, it must be sound.
ScreenshotFits(r, reply) == reply.shot # "invalid" /\ (r.shot => reply.shot = "valid")

\* normalize_cua_browser_snapshot and the screenshot that goes with it.
Snapshot(r, reply) ==
    /\ ExactTab(reply)
    /\ reply.mode = "snapshot"
    /\ reply.omitted = "fits"
    /\ RefsAreUsable(reply)
    /\ ScreenshotFits(r, reply)

Normalized(r, reply) ==
    CASE r.kind = "prepare" -> PreparedBrowser(reply)   [] r.kind = "bind" -> Bound(reply)
      [] r.kind = "inspect" -> Snapshot(r, reply) [] r.kind = "navigate" -> Navigated(reply)
      [] r.kind = "dialog" -> DialogDone(r, reply)
      [] OTHER -> Acted(reply) # "invalid"

ReadOnly(r) == r.kind \in {"bind", "inspect"} \/ (r.kind = "dialog" /\ r.verb = "inspect")

\* refusal_reason: a refusal needs its code; a closed result refuses by its effect.
Refusal(reply) ==
    \/ reply.form = "refused" /\ reply.coded
    \/ reply.effect \in {"refused", "partial"}

\* BrowserBackendResult, the answer to each command.
ResultOf(r) ==
    CASE r.kind = "dialog" -> IF r.verb = "inspect" THEN "dialog_observed" ELSE "dialog_completed"
      [] OTHER -> r.kind

\* execute_cua_browser once the call has ended.
Concluded(r, reply) ==
    IF reply.form \in {"timed_out", "cancelled"} THEN TellBrowser("indeterminate")
    ELSE IF reply.form = "backend_error" \/ Refusal(reply) THEN TellBrowser("failed")
    ELSE IF reply.form \in {"plain", "closed"} /\ Normalized(r, reply)
    THEN [kind |-> "completed", result |-> ResultOf(r),
          effect |-> IF r.kind = "click" THEN ClickEffect(r, Acted(reply)) ELSE "none"]
    ELSE TellBrowser(IF ReadOnly(r) THEN "failed" ELSE "indeterminate")

\* BrowserBackendResult::matches_command
MatchesBrowserCommand(told, r) == told.kind = "completed" => told.result = ResultOf(r)

-----------------------------------------------------------------------------
(* The path of one request                                                 *)

BrowserInit ==
    /\ browserAsk = BlankAsk
    /\ browserAt = "idle"
    /\ browserArgs = BlankArgs
    /\ browserDeed = NoDeed
    /\ browserTold = NothingTold

AskBrowser ==
    /\ browserAt = "idle"
    /\ \E i \in DOMAIN BrowserAsks : \E r \in BrowserAsks[i] : browserAsk' = r @@ BlankAsk
    /\ browserAt' = "asked"
    /\ UNCHANGED <<browserArgs, browserDeed, browserTold>>

\* The Hub validates the request and signs a command with the refs resolved.
HubValidates ==
    /\ browserAt = "asked"
    /\ IF HubAccepts(browserAsk)
       THEN browserAt' = "sent" /\ UNCHANGED browserTold
       ELSE browserAt' = "told" /\ browserTold' = TellBrowser("rejected")
    /\ UNCHANGED <<browserAsk, browserArgs, browserDeed>>

\* Uploads and downloads leave here for the staging area's own calls.
AgentValidates ==
    /\ browserAt = "sent"
    /\ IF AgentAccepts(browserAsk) /\ browserAsk.kind \notin {"upload", "download"}
       THEN /\ browserArgs' = MapBrowserCommand(browserAsk)
            /\ browserAt' = "called"
            /\ UNCHANGED browserTold
       ELSE /\ browserTold' = TellBrowser(IF AgentAccepts(browserAsk) THEN "staged" ELSE "failed")
            /\ browserAt' = "told"
            /\ UNCHANGED browserArgs
    /\ UNCHANGED <<browserAsk, browserDeed>>

ProviderAnswers ==
    /\ browserAt = "called"
    /\ \E part \in Deeds(browserAsk) :
         LET did == part @@ Asked
         IN \E reply \in OwnReplies(browserAsk, did) \cup CommonReplies :
              browserDeed' = [did |-> did, reply |-> reply @@ BlankReply]
    /\ browserAt' = "answered"
    /\ UNCHANGED <<browserAsk, browserArgs, browserTold>>

AgentConcludes ==
    /\ browserAt = "answered"
    /\ LET told == Concluded(browserAsk, browserDeed.reply)
       IN browserTold' = IF MatchesBrowserCommand(told, browserAsk) THEN told ELSE TellBrowser("invalid")
    /\ browserAt' = "told"
    /\ UNCHANGED <<browserAsk, browserArgs, browserDeed>>

BrowserNext ==
    \/ AskBrowser
    \/ HubValidates
    \/ AgentValidates
    \/ ProviderAnswers
    \/ AgentConcludes

BrowserSpec == BrowserInit /\ [][BrowserNext]_browserVars

-----------------------------------------------------------------------------
(* Properties                                                              *)

\* What a form of answer can prove of an action.  The closed form has no tab and
\* the plain form no route, so neither shows both: a provider that clicked in the
\* wrong tab and answers in the closed form is believed.
Provable(r, reply) ==
    IF r.kind \notin {"click", "type", "pointer"} THEN {"tab", "url", "dialog", "verb"}
    ELSE IF reply.form = "closed" THEN {"route"} ELSE {"tab"}

\* A request the caller is told is completed was carried out as it was asked in
\* every part that the form of the answer names, however the answer is phrased:
\* for a navigation, an inspection and a dialog the tab, the document, the dialog
\* and the resolution, for an action the route (closed form) or the tab (plain
\* form).  A click is called dispatched only if it landed or the provider
\* acknowledged it in the plain form on the trusted route (normalize_completed and
\* what it calls).  The part an action's answer does not name may be anything.
DoneIsWhatWasAsked ==
    browserTold.kind = "completed" =>
        /\ \A part \in Provable(browserAsk, browserDeed.reply) : browserDeed.did[part] = "asked"
        /\ browserTold.effect = "dispatched" =>
              browserDeed.did.landed \/ (browserDeed.reply.form = "plain"
                                            /\ browserAsk.route = "trusted")
        /\ browserAsk.kind = "navigate" => browserDeed.reply.dropped
        /\ browserAsk.shot => browserDeed.reply.shot = "valid"

\* The provider is given no more authority than the caller asked for, over the
\* two validators and the mapping together: it is told it may launch a browser
\* only for a caller that allowed it and never for an existing profile, which
\* is attached by its window; a dialog is resolved, brought to the foreground or
\* given a text only when that was asked; synthetic input always names an
\* element (validate, validate_command and map_command).
NoAuthorityBeyondTheAsk ==
    browserAt \in {"called", "answered"} =>
        LET r == browserAsk
            a == browserArgs
        IN /\ a.launch \in {Unset, "no"} \/ (a.launch = "yes" /\ r.launch /\ r.profile # "existing")
           /\ (r.kind = "prepare" /\ r.profile = "existing") => Given(a.window) /\ ~Given(a.name)
           /\ Given(a.dialog) <=> (r.kind = "dialog" /\ r.verb # "inspect")
           /\ a.delivery = "foreground" => r.verb # "inspect" /\ r.delivery = "foreground"
           /\ Given(a.prompt) => r.verb = "accept"
           /\ a.spot = "viewport" => a.route = "trusted"
           /\ Given(a.delta) => r.delta # 0
           /\ Given(a.dest) <=> (r.kind = "pointer" /\ r.gesture = "drag")
           /\ Given(a.page) => ~Given(a.scope) /\ ~Given(a.query)

\* Between caller and browser provider: no authority beyond what was asked, and
\* completed only if what the answer names is what was asked.
BrowserSafe == DoneIsWhatWasAsked /\ NoAuthorityBeyondTheAsk
=============================================================================
