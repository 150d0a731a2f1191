---------------------------- MODULE ToolCatalogue ----------------------------
(***************************************************************************)
(* The tools the Hub offers and what their callers are told.  Three tables *)
(* that are kept by hand must agree: the hints a tool is published with,   *)
(* the capability it is authorised, recorded and looked up under, and the  *)
(* commands it issues.  A call becomes an operation of the Hub; its outcome *)
(* reaches the caller as a result or an error with guidance, possibly never, *)
(* and get_operation answers about it later.                               *)
(*                                                                         *)
(* The Hub's ledger appears as the state of each operation, moved by the    *)
(* events of delivery; how those come about is OperationDelivery's subject. *)
(***************************************************************************)
EXTENDS Naturals, FiniteSets, TLC

CONSTANTS
  Policies,        \* capability sets a principal may be granted
  Adverts,         \* capability sets an agent may advertise
  Operations       \* operation ids

VARIABLES
  granted,         \* what the caller is authorised for
  live,            \* the advertised capabilities, {} while offline
  listed,          \* the tools the caller was last shown
  op               \* the ledger's and the caller's view of each operation

catalogueVars == <<granted, live, listed, op>>

-----------------------------------------------------------------------------
(* The published tools with their hints.                                   *)
ContextTools ==
  [open_interaction_context |-> "plain", close_interaction_context |-> "plain"]
BrowserTools ==
  [browser_prepare |-> "destructive", browser_bind |-> "read_only",
   browser_inspect |-> "read_only", browser_navigate |-> "destructive",
   browser_click |-> "destructive", browser_type |-> "destructive",
   browser_dialog |-> "destructive"]
BrowserInputTools ==
  [browser_pointer |-> "destructive", browser_stage_upload_file |-> "destructive",
   browser_upload_file |-> "destructive", browser_download_file |-> "destructive"]
DesktopTools ==
  [list_apps |-> "read_only", get_screen_size |-> "read_only", screenshot |-> "read_only",
   click |-> "destructive", drag |-> "destructive", type_text |-> "destructive"]
OperationTools == [get_operation |-> "read_only", cumg_status |-> "read_only"]
JobTools ==
  [read_process_output |-> "read_only", managed_job_start |-> "destructive",
   managed_job_status |-> "read_only", managed_job_output |-> "read_only",
   managed_job_renew |-> "destructive", managed_job_stop |-> "destructive"]
TestTools ==
  [playwright_test_start |-> "destructive", playwright_test_status |-> "read_only",
   playwright_test_output |-> "read_only", playwright_test_stop |-> "destructive"]
HostTools ==
  [execute_process |-> "destructive", shell |-> "destructive", read_file |-> "read_only",
   list_directory |-> "read_only", write_workspace_file |-> "destructive"]
WindowTools ==
  [list_windows |-> "read_only", launch_application |-> "destructive",
   inspect_window |-> "read_only", verify_ui_state |-> "read_only",
   terminate_application |-> "destructive", activate_window |-> "destructive",
   set_window_frame |-> "destructive", invoke_menu |-> "destructive"]
InputTools ==
  [keyboard_input |-> "destructive", scroll |-> "destructive",
   clipboard_read |-> "read_only", clipboard_write |-> "destructive",
   get_pointer_position |-> "read_only", move_pointer |-> "destructive",
   set_ui_value |-> "destructive", capture_region |-> "read_only",
   expand_interaction_scope |-> "destructive"]

Hint ==
  ContextTools @@ BrowserTools @@ BrowserInputTools @@ DesktopTools @@ OperationTools
    @@ JobTools @@ TestTools @@ HostTools @@ WindowTools @@ InputTools
Tools == DOMAIN Hint

(* The capability a call is authorised under, where there is one.           *)
ToolCapability ==
  [list_apps |-> "ListApplications", get_screen_size |-> "ScreenGeometry",
   screenshot |-> "Screenshot", click |-> "PointerClick", drag |-> "PointerDrag",
   type_text |-> "TypeText", execute_process |-> "ExecuteProcess", shell |-> "Shell",
   read_process_output |-> "ReadProcessOutput",
   managed_job_start |-> "ManagedJobControl", managed_job_renew |-> "ManagedJobControl",
   managed_job_stop |-> "ManagedJobControl", managed_job_status |-> "ManagedJobObserve",
   managed_job_output |-> "ManagedJobObserve",
   playwright_test_start |-> "PlaywrightTestControl",
   playwright_test_stop |-> "PlaywrightTestControl",
   playwright_test_status |-> "PlaywrightTestObserve",
   playwright_test_output |-> "PlaywrightTestObserve",
   read_file |-> "ReadFile", list_directory |-> "ListDirectory",
   write_workspace_file |-> "WriteWorkspaceFile", list_windows |-> "ListWindows",
   launch_application |-> "LaunchApplication", inspect_window |-> "InspectWindow",
   verify_ui_state |-> "VerifyUiState", terminate_application |-> "TerminateApplication",
   activate_window |-> "ActivateWindow", set_window_frame |-> "SetWindowFrame",
   invoke_menu |-> "InvokeMenu", keyboard_input |-> "KeyboardInput", scroll |-> "Scroll",
   clipboard_read |-> "ClipboardRead", clipboard_write |-> "ClipboardWrite",
   get_pointer_position |-> "PointerPosition", move_pointer |-> "MovePointer",
   set_ui_value |-> "SetUiValue", capture_region |-> "CaptureRegion",
   expand_interaction_scope |-> "DesktopScope", browser_prepare |-> "BrowserPrepare",
   browser_bind |-> "BrowserInspect", browser_inspect |-> "BrowserInspect",
   browser_navigate |-> "BrowserNavigate", browser_click |-> "BrowserClick",
   browser_type |-> "BrowserType", browser_dialog |-> "BrowserDialog",
   browser_pointer |-> "BrowserPointer",
   browser_stage_upload_file |-> "BrowserUploadFile",
   browser_upload_file |-> "BrowserUploadFile", browser_download_file |-> "BrowserDownload"]

Observing ==
  {"ListApplications", "ScreenGeometry", "Screenshot", "ReadProcessOutput",
   "ManagedJobObserve", "PlaywrightTestObserve", "ReadFile", "ListDirectory",
   "ListWindows", "InspectWindow", "VerifyUiState", "ClipboardRead",
   "PointerPosition", "CaptureRegion", "BrowserInspect"}
DevicePlain ==
  {"ListApplications", "ScreenGeometry", "Screenshot", "PointerClick", "PointerDrag",
   "TypeText", "ExecuteProcess", "Shell", "ReadProcessOutput", "ReadFile",
   "ListDirectory", "WriteWorkspaceFile", "ListWindows", "LaunchApplication",
   "InspectWindow", "VerifyUiState", "TerminateApplication", "ActivateWindow",
   "SetWindowFrame", "InvokeMenu", "KeyboardInput", "Scroll", "ClipboardRead",
   "ClipboardWrite", "PointerPosition", "MovePointer", "SetUiValue", "CaptureRegion"}
ContextEligible ==
  {"Screenshot", "PointerClick", "PointerDrag", "TypeText", "ListWindows",
   "LaunchApplication", "InspectWindow", "VerifyUiState", "ActivateWindow",
   "SetWindowFrame", "InvokeMenu", "KeyboardInput", "Scroll", "ClipboardRead",
   "ClipboardWrite", "PointerPosition", "MovePointer", "SetUiValue", "CaptureRegion",
   "DesktopScope", "BrowserInspect", "BrowserPrepare", "BrowserNavigate",
   "BrowserClick", "BrowserType", "BrowserDialog", "BrowserPointer",
   "BrowserUploadFile", "BrowserDownload"}

(* Commands are named after their variant; a contextual or advanced form    *)
(* has its plain form's name, and a browser dialog is read or answered.     *)
BrowserRuntime ==
  [Bind |-> "Inspect", Inspect |-> "Inspect", Prepare |-> "Prepare",
   Navigate |-> "Navigate", Click |-> "Click", Type |-> "Type",
   InspectDialog |-> "Dialog", AnswerDialog |-> "Dialog", Pointer |-> "Pointer",
   Upload |-> "UploadFile", Download |-> "Download"]
BrowserCapability ==
  [Inspect |-> "BrowserInspect", Prepare |-> "BrowserPrepare",
   Navigate |-> "BrowserNavigate", Click |-> "BrowserClick", Type |-> "BrowserType",
   Dialog |-> "BrowserDialog", Pointer |-> "BrowserPointer",
   UploadFile |-> "BrowserUploadFile", Download |-> "BrowserDownload"]
CommandCapability ==
  [c \in DevicePlain |-> c]
    @@ [c \in DOMAIN BrowserRuntime |-> BrowserCapability[BrowserRuntime[c]]]
    @@ [ManagedJobStart |-> "ManagedJobControl", ManagedJobRenew |-> "ManagedJobControl",
        ManagedJobStop |-> "ManagedJobControl", ManagedJobStatus |-> "ManagedJobObserve",
        ManagedJobOutput |-> "ManagedJobObserve",
        PlaywrightTestStart |-> "PlaywrightTestControl",
        PlaywrightTestStop |-> "PlaywrightTestControl",
        PlaywrightTestStatus |-> "PlaywrightTestObserve",
        PlaywrightTestOutput |-> "PlaywrightTestObserve",
        ExpandInteractionScope |-> "DesktopScope",
        StageBrowserUploadFile |-> "BrowserUploadFile"]
ReadOnlyCommands ==
  {"ListApplications", "ScreenGeometry", "Screenshot", "ReadProcessOutput",
   "ManagedJobStatus", "ManagedJobOutput", "PlaywrightTestStatus",
   "PlaywrightTestOutput", "ReadFile", "ListDirectory", "ListWindows", "InspectWindow",
   "VerifyUiState", "ClipboardRead", "PointerPosition", "CaptureRegion",
   "Bind", "Inspect", "InspectDialog"}

(* What each arm of call_tool builds.                                      *)
JobCommand ==
  [managed_job_start |-> "ManagedJobStart", managed_job_status |-> "ManagedJobStatus",
   managed_job_output |-> "ManagedJobOutput", managed_job_renew |-> "ManagedJobRenew",
   managed_job_stop |-> "ManagedJobStop"]
TestCommand ==
  [playwright_test_start |-> "PlaywrightTestStart",
   playwright_test_status |-> "PlaywrightTestStatus",
   playwright_test_output |-> "PlaywrightTestOutput",
   playwright_test_stop |-> "PlaywrightTestStop"]
HostCommand ==
  [execute_process |-> "ExecuteProcess", shell |-> "Shell", read_file |-> "ReadFile",
   list_directory |-> "ListDirectory", write_workspace_file |-> "WriteWorkspaceFile"]
BrowserCommand ==
  [browser_prepare |-> "Prepare", browser_bind |-> "Bind", browser_inspect |-> "Inspect",
   browser_navigate |-> "Navigate", browser_click |-> "Click", browser_type |-> "Type",
   browser_pointer |-> "Pointer", browser_stage_upload_file |-> "StageBrowserUploadFile",
   browser_upload_file |-> "Upload", browser_download_file |-> "Download"]
GuiCommand ==
  [list_apps |-> "ListApplications", get_screen_size |-> "ScreenGeometry",
   screenshot |-> "Screenshot", click |-> "PointerClick", drag |-> "PointerDrag",
   type_text |-> "TypeText", list_windows |-> "ListWindows",
   launch_application |-> "LaunchApplication", inspect_window |-> "InspectWindow",
   verify_ui_state |-> "VerifyUiState", terminate_application |-> "TerminateApplication",
   activate_window |-> "ActivateWindow", set_window_frame |-> "SetWindowFrame",
   invoke_menu |-> "InvokeMenu", keyboard_input |-> "KeyboardInput", scroll |-> "Scroll",
   clipboard_read |-> "ClipboardRead", clipboard_write |-> "ClipboardWrite",
   get_pointer_position |-> "PointerPosition", move_pointer |-> "MovePointer",
   set_ui_value |-> "SetUiValue", capture_region |-> "CaptureRegion",
   expand_interaction_scope |-> "ExpandInteractionScope"]
OneCommand == JobCommand @@ TestCommand @@ HostCommand @@ BrowserCommand @@ GuiCommand
                @@ [read_process_output |-> "ReadProcessOutput"]
Issues(t) == IF t = "browser_dialog" THEN {"InspectDialog", "AnswerDialog"}
             ELSE {OneCommand[t]}

-----------------------------------------------------------------------------
Recoverable(cap) == cap \notin Observing
Capabilities == {ToolCapability[t] : t \in DOMAIN ToolCapability}

(* What a listing shows.                                                   *)
ContextAccess == granted \cap live \cap ContextEligible # {}
RecoveryAccess == \E cap \in Capabilities : Recoverable(cap) /\ cap \in granted
StatusAccess == granted \cap Capabilities # {}
ToolsFor ==
  {t \in Tools :
     CASE t \in DOMAIN ContextTools -> ContextAccess
       [] t = "get_operation" -> RecoveryAccess
       [] t = "cumg_status" -> StatusAccess
       [] OTHER -> ToolCapability[t] \in granted \cap live}

(* An operation: the tool and command of the call, whether the caller chose *)
(* its id, the ledger's state, whether the command ever left, and what the  *)
(* caller was told: a code, what it says of the execution, the id, and      *)
(* whether the body says that the process ran out of time.                 *)
Untold == [code |-> "none", occurred |-> "unsaid", id |-> FALSE, timedOut |-> FALSE]
NoOp == [tool |-> "none", cmd |-> "none", named |-> FALSE, state |-> "none",
         left |-> FALSE, timedOut |-> FALSE, told |-> Untold]

CatalogueInit ==
  /\ granted \in Policies
  /\ live = {} /\ listed = {}
  /\ op = [o \in Operations |-> NoOp]

InFlight == {"Queued", "ActiveNotDispatched", "Dispatched", "CancelRequested"}
Waiting(o) == op[o].state \in InFlight \cup {"Completed", "Failed", "Cancelled", "Indeterminate",
                                            "NotDelivered"}
              /\ op[o].told = Untold

\* Mutant: a closed session is taken to mean that nothing ran.
ClosedMeansNotRun(code) ==
  CASE code = "device_indeterminate" -> "maybe"
    [] code \in {"confirmed_not_executed", "session_closed"} -> "no"
    [] OTHER -> "unsaid"

(* Guidance that goes with a code.                                         *)
Occurred(code) ==
  CASE code = "device_indeterminate" -> "maybe"
    [] code = "confirmed_not_executed" -> "no"
    [] OTHER -> "unsaid"

(* An error becomes a tool result; the code and its guidance are copied,    *)
(* the operation id beside them is not.                                    *)
execution_error_response(code) == [Untold EXCEPT !.code = code, !.occurred = Occurred(code)]

(* The capability decides whether the answer names the operation; the job   *)
(* and test arms keep lists of their own, the browser's answers and the     *)
(* images of a result never do.                                            *)
NamesOperation(t) ==
  CASE t \in DOMAIN JobCommand -> t \in {"managed_job_start", "managed_job_renew", "managed_job_stop"}
    [] t \in DOMAIN TestCommand -> t \in {"playwright_test_start", "playwright_test_stop"}
    [] t = "read_process_output" \/ t \in DOMAIN BrowserCommand \/ t = "browser_dialog" -> FALSE
    [] OTHER -> Recoverable(ToolCapability[t])
SuccessResponse(t) == [Untold EXCEPT !.code = "success", !.id = NamesOperation(t)]

Refusals == {"agent_offline", "busy", "device_indeterminate", "mutation_resume_required",
             "operation_replay", "semantic_constraint_denied"}

Tell(o, told) == op' = [op EXCEPT ![o].told = told]

(* A session brings an advertisement, its end takes it away.               *)
Attach == /\ live' \in Adverts /\ live' # live
          /\ UNCHANGED <<granted, listed, op>>
Detach == /\ live # {} /\ live' = {}
          /\ UNCHANGED <<granted, listed, op>>

list_tools ==
  /\ listed' = ToolsFor
  /\ UNCHANGED <<granted, live, op>>

(* A call that passes authorization is admitted or refused by the Hub; an   *)
(* operation id is taken from the arguments only of a recoverable tool.    *)
call_tool(o, t, c) ==
  /\ op[o].state = "none" /\ t \in DOMAIN ToolCapability
  /\ ToolCapability[t] \in granted /\ CommandCapability[c] \in granted
  /\ \E named \in IF Recoverable(ToolCapability[t]) THEN BOOLEAN ELSE {FALSE} :
       LET new == [NoOp EXCEPT !.tool = t, !.cmd = c, !.named = named]
       IN  \/ /\ ToolCapability[t] \in live
              /\ op' = [op EXCEPT ![o] = [new EXCEPT !.state = "Queued"]]
           \/ \E code \in Refusals :
                op' = [op EXCEPT ![o] = [new EXCEPT !.state = "refused",
                                                     !.told = execution_error_response(code)]]
  /\ UNCHANGED <<granted, live, listed>>

(* The ledger moves: see OperationDelivery for when.                       *)
LedgerStep(o) ==
  /\ \/ /\ op[o].state = "Queued"
        /\ op' = [op EXCEPT ![o].state = "ActiveNotDispatched"]
     \/ /\ op[o].state = "ActiveNotDispatched"
        /\ \/ op' = [op EXCEPT ![o].state = "Dispatched", ![o].left = TRUE]
           \/ op' = [op EXCEPT ![o].state = "NotDelivered"]
     \/ /\ op[o].state \in {"Queued", "ActiveNotDispatched"}
        /\ op' = [op EXCEPT ![o].state = "Cancelled"]
     \/ /\ op[o].state \in {"Dispatched", "CancelRequested"}
        /\ \E to \in {"Completed", "Failed", "Indeterminate", "Cancelled"}, late \in BOOLEAN :
             /\ to = "Cancelled" => op[o].state = "CancelRequested"
             /\ late => to = "Failed" /\ op[o].cmd \in {"ExecuteProcess", "Shell"}
             /\ op' = [op EXCEPT ![o].state = to, ![o].timedOut = late]
  /\ UNCHANGED <<granted, live, listed>>

(* A process that ran out of time has failed for the ledger; its caller gets *)
(* its output, as a success whose body has timed_out set.                  *)
TimedOutResponse(t) == [SuccessResponse(t) EXCEPT !.timedOut = TRUE]

(* The pending reply resolves; a session that ends may drop it.            *)
Reply(o) ==
  /\ Waiting(o)
  /\ \/ /\ op[o].state = "Completed"
        /\ \/ Tell(o, SuccessResponse(op[o].tool))
           \/ Tell(o, execution_error_response("unexpected_result"))
     \/ /\ op[o].state = "Failed"
        /\ Tell(o, IF op[o].timedOut THEN TimedOutResponse(op[o].tool)
                   ELSE execution_error_response("remote"))
     \/ op[o].state = "Indeterminate" /\ Tell(o, execution_error_response("device_indeterminate"))
     \/ op[o].state = "NotDelivered" /\ Tell(o, execution_error_response("confirmed_not_executed"))
     \/ /\ op[o].state = "Cancelled" /\ ~op[o].left
        /\ Tell(o, execution_error_response("cancelled_before_dispatch"))
     \/ Tell(o, execution_error_response("session_closed"))
  /\ UNCHANGED <<granted, live, listed>>

(* The caller cancels: it is told so, and the Hub asked to stop.  The arms  *)
(* for jobs, tests and process output do not listen for it.                *)
CallerCancels(o) ==
  /\ Waiting(o)
  /\ op[o].tool \notin DOMAIN JobCommand \cup DOMAIN TestCommand \cup {"read_process_output"}
  /\ op' = [op EXCEPT ![o].told = execution_error_response("operation_cancelled"),
                      ![o].state = IF @ = "Dispatched" THEN "CancelRequested" ELSE @]
  /\ UNCHANGED <<granted, live, listed>>

(* Rollover forgets what it does not archive.                              *)
Rollover(o) ==
  /\ op[o].state \in {"Completed", "Failed", "Cancelled", "NotDelivered"}
  /\ op' = [op EXCEPT ![o].state = "forgotten"]
  /\ UNCHANGED <<granted, live, listed>>

(* What get_operation answers its owner.                                   *)
public_recovery_state(s, timedOut) ==
  CASE s \in InFlight -> "running"
    [] s = "Completed" -> "succeeded"
    [] s \in {"Cancelled", "NotDelivered"} -> "cancelled"
    [] s = "Indeterminate" -> "indeterminate"
    [] s = "Failed" /\ timedOut -> "timed_out"
    [] OTHER -> "failed"
get_operation(o) ==
  LET cap == CommandCapability[op[o].cmd]
  IN  IF op[o].state \in {"none", "refused", "forgotten"} \/ ~Recoverable(cap)
           \/ cap \notin granted
        THEN [state |-> "not_found", occurred |-> "unsaid"]
        ELSE [state |-> public_recovery_state(op[o].state, op[o].timedOut),
              occurred |-> CASE op[o].state = "Indeterminate" -> "maybe"
                             [] op[o].state = "NotDelivered" -> "no"
                             [] OTHER -> "unsaid"]

CatalogueNext ==
  \/ Attach \/ Detach \/ list_tools
  \/ \E o \in Operations :
       \/ \E t \in DOMAIN ToolCapability : \E c \in Issues(t) : call_tool(o, t, c)
       \/ LedgerStep(o) \/ Reply(o) \/ CallerCancels(o) \/ Rollover(o)

CatalogueSpec == CatalogueInit /\ [][CatalogueNext]_catalogueVars

-----------------------------------------------------------------------------
(* A command that can change something is only ever issued by a tool that   *)
(* says so, accepts a caller's operation id, and is found by get_operation  *)
(* for as long as the ledger knows it; a tool published as read-only issues *)
(* nothing else, and everything shown to a caller can be called.            *)
EffectsCanBeFollowed ==
  /\ \A o \in Operations : op[o].left /\ op[o].cmd \notin ReadOnlyCommands =>
       /\ Hint[op[o].tool] = "destructive"
       /\ op[o].state # "forgotten" => get_operation(o).state # "not_found"
  /\ \A t \in listed \cap DOMAIN ToolCapability : ToolCapability[t] \in granted

(* The answer to the call and the later answer of get_operation never       *)
(* contradict each other or the ledger: "did not happen" only of what never  *)
(* left the Hub, and success only of what succeeded, or of a process that    *)
(* ran out of time, which get_operation calls timed_out and the answer says  *)
(* in its body.                                                             *)
AnswersAgree ==
  \A o \in Operations :
    /\ op[o].told.occurred = "no" \/ get_operation(o).occurred = "no"
         \/ op[o].told.code = "cancelled_before_dispatch" => ~op[o].left
    /\ op[o].told.code = "success" /\ Recoverable(ToolCapability[op[o].tool])
         => get_operation(o).state
              \in {IF op[o].told.timedOut THEN "timed_out" ELSE "succeeded", "not_found"}
    /\ get_operation(o).state \in {"succeeded", "timed_out"} => op[o].left

(* A caller told that its own operation is indeterminate can look it up: it *)
(* chose the id, or the answer names it.                                    *)
ToldWhatToLookUp ==
  \A o \in Operations :
    /\ op[o].state = "Indeterminate" /\ op[o].told.code = "device_indeterminate"
    /\ Recoverable(ToolCapability[op[o].tool])
      => op[o].named \/ op[o].told.id

\* What a caller is shown, is told and can look up agree with each other and with the
\* ledger for every tool, command and outcome.
CatalogueSafe == EffectsCanBeFollowed /\ AnswersAgree
=============================================================================
