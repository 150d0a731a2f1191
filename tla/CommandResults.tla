--------------------------- MODULE CommandResults ---------------------------
(***************************************************************************)
(* What becomes of the answer to one command: the provider's tool result   *)
(* is normalised by the Agent (v2_m1_backend.rs), or the Agent answers     *)
(* from its own files and jobs (v2_m1_agent.rs); the Hub checks that the   *)
(* result answers the command it is for (v2_m0.rs,                         *)
(* validate_command_result) before it tells the caller.  A result that     *)
(* does not ends the session (handle_result's error leaves run_session),   *)
(* and with it a command that may have acted becomes indeterminate.        *)
(*                                                                         *)
(* A raw answer is honest: it shows a window, a clipboard or a file as it  *)
(* is, or omits it; what the provider looked at may not be what was asked. *)
(***************************************************************************)
EXTENDS Integers, Sequences, SequencesExt, FiniteSets, TLC

CONSTANTS
    MaxWindows,   \* MAX_WINDOW_RESULTS
    MaxElements,  \* MAX_UI_ELEMENTS
    MaxTypes,     \* MAX_CLIPBOARD_TYPES
    MaxPage,      \* bytes or entries of one page, and its largest offset
    CommandsAsked \* sets of commands the Hub sends, each with its parameters

ASSUME ResultConstants ==
    /\ MaxWindows \in Nat \ {0}
    /\ MaxElements \in Nat \ {0}
    /\ MaxTypes \in Nat
    /\ MaxPage \in Nat \ {0}

VARIABLES
    command, \* the command in flight, with the parameters its result is checked against
    phase,   \* "idle", "sent", "answered", "resulted", "over"
    raw,     \* the provider's or the device's answer
    result,  \* the Agent's DeviceResult
    outcome  \* what the caller is told: "completed", "failed", "indeterminate"

resultVars == <<command, phase, raw, result, outcome>>

NoResult == [kind |-> "none"]
Malformed == [kind |-> "malformed"]

-----------------------------------------------------------------------------
(* The result each command is answered with                                *)

\* The arms of CuaMcpAdapter::execute: answered whatever the tool returned.
ActionResults ==
    [PointerClick |-> "PointerClickCompleted", PointerDrag |-> "PointerDragCompleted",
     TypeText |-> "TypeTextCompleted", TerminateApplication |-> "ApplicationTerminated",
     SetWindowFrame |-> "WindowFrameSet", InvokeMenu |-> "MenuInvoked",
     KeyboardInput |-> "KeyboardInputCompleted", Scroll |-> "ScrollCompleted",
     MovePointer |-> "PointerMoveCompleted", SetUiValue |-> "UiValueSet",
     ExpandInteractionScope |-> "InteractionScopeExpanded"]

\* Those whose tool result is looked into.
EvidenceResults ==
    [ActivateWindow |-> "WindowActivated", ClipboardRead |-> "ClipboardState",
     ClipboardWrite |-> "ClipboardWritten", PointerPosition |-> "PointerPosition",
     CaptureRegion |-> "RegionCaptured", Screenshot |-> "Screenshot",
     InspectWindow |-> "WindowSnapshot", VerifyUiState |-> "UiStateVerification",
     ListApplications |-> "Applications", ScreenGeometry |-> "ScreenGeometry",
     ListWindows |-> "Windows", LaunchApplication |-> "ApplicationLaunched"]

\* The Agent's own arms for processes, files and staged uploads.
DeviceResults ==
    [ExecuteProcess |-> "Process", Shell |-> "Shell",
     ReadProcessOutput |-> "ProcessOutputRange", ReadFile |-> "FileContents",
     ListDirectory |-> "DirectoryEntries", WriteWorkspaceFile |-> "WorkspaceFileWritten",
     StageBrowserUploadFile |-> "BrowserUploadStaged"]

\* The Agent's arms for managed jobs.
JobResults ==
    [ManagedJobStart |-> "ManagedJobStarted", ManagedJobStatus |-> "ManagedJobStatus",
     ManagedJobOutput |-> "ManagedJobOutput", ManagedJobRenew |-> "ManagedJobRenewed",
     ManagedJobStop |-> "ManagedJobStopped"]

\* The Agent's arms for sandboxed tests.
TestResults ==
    [PlaywrightTestStart |-> "PlaywrightTestStarted",
     PlaywrightTestStatus |-> "PlaywrightTestStatus",
     PlaywrightTestOutput |-> "PlaywrightTestOutput",
     PlaywrightTestStop |-> "PlaywrightTestStopped"]

ResultKind == ActionResults @@ EvidenceResults @@ DeviceResults @@ JobResults @@ TestResults

\* DeviceCommand::is_read_only, for the commands that fail without doubt.
Observes(c) ==
    c.name \in {"ClipboardRead", "PointerPosition", "CaptureRegion", "Screenshot",
                "InspectWindow", "VerifyUiState", "ListApplications", "ScreenGeometry",
                "ListWindows", "ReadProcessOutput", "ReadFile", "ListDirectory",
                "ManagedJobStatus", "ManagedJobOutput", "PlaywrightTestStatus",
                "PlaywrightTestOutput"}

-----------------------------------------------------------------------------
(* The Agent: normalising a provider's answer                              *)

\* normalize_window_record: a window without area is no target.
Targetable(w) == w = "shown"

\* normalize_windows_result: helpers are left out, and the list says if it is cut.
\* The first window too many is read and no further one.
NormalizeWindows(list) ==
    LET shown == SelectSeq(list, Targetable)
        Before(i) == Len(SelectSeq(SubSeq(list, 1, i - 1), Targetable))
    IN IF \E i \in DOMAIN list : list[i] = "broken" /\ Before(i) <= MaxWindows THEN Malformed
       ELSE [kind |-> "Windows", count |-> IF Len(shown) > MaxWindows THEN MaxWindows ELSE Len(shown),
             truncated |-> Len(shown) > MaxWindows]

\* normalize_application_launch_result: here a window without area is an error.
NormalizeLaunch(list) ==
    LET taken == SubSeq(list, 1, IF Len(list) > MaxWindows THEN MaxWindows ELSE Len(list))
    IN IF \E w \in ToSet(taken) : ~Targetable(w) THEN Malformed
       ELSE [kind |-> "ApplicationLaunched", count |-> Len(taken),
             truncated |-> Len(list) > MaxWindows]

\* extract_png_image: exactly one image, and it is a PNG of some size.
OneImage(images) == images = <<"png">>

\* An image comes when it was asked for and not otherwise.
ImageFits(c, images) == IF c.image THEN OneImage(images) ELSE images = <<>>

\* Mutant: the window the snapshot shows is taken to be the one asked for.
AnyTarget(r) == r.target \in {"asked", "other"}

\* The pid and window id the provider names are those of the command.
NamesTarget(r) == r.target = "asked"

\* normalize_ui_element: a parent is found by its index among the elements.
ParentOf(elements, e) ==
    LET at == {i \in DOMAIN elements : elements[i].index = e.parent}
    IN IF at = {} THEN 0 ELSE CHOOSE i \in at : \A j \in at : j <= i

\* normalize_window_snapshot_result; a snapshot that does not say it is complete is not.
NormalizeSnapshot(c, r) ==
    IF NamesTarget(r) /\ Len(r.elements) <= MaxElements /\ ImageFits(c, r.images)
    THEN [kind |-> "WindowSnapshot",
          parents |-> [i \in DOMAIN r.elements |-> ParentOf(r.elements, r.elements[i])],
          complete |-> r.complete = "yes", image |-> c.image]
    ELSE Malformed

\* normalize_ui_verification_result: one verdict for each predicate asked.
NormalizeVerification(c, r) ==
    IF /\ Len(r.verdicts) = c.predicates
       /\ \A v \in ToSet(r.verdicts) : v # "strange"
       /\ ImageFits(c, r.images)
    THEN [kind |-> "UiStateVerification", verdicts |-> r.verdicts, image |-> c.image]
    ELSE Malformed

\* normalize_window_activation_result: the window asked for needs its own evidence.
NormalizeActivation(c, r) ==
    IF r.activated = "omitted" \/ (c.window /\ r.verified = "omitted") THEN Malformed
    ELSE [kind |-> "WindowActivated", activated |-> r.activated,
          verified |-> IF c.window THEN r.verified ELSE "none"]

\* normalize_clipboard_types and the texts' bound.
NormalizeClipboard(c, r) ==
    IF r.types > MaxTypes \/ (c.name = "ClipboardRead" /\ r.text = "large") THEN Malformed
    ELSE [kind |-> EvidenceResults[c.name], types |-> r.types]

\* normalize_region_capture_result, which falls back on the structured bytes, and
\* normalize_screenshot_result.
NormalizeCapture(c, r) ==
    IF r.size = 0 THEN Malformed
    ELSE IF c.name = "CaptureRegion"
         THEN IF r.mime = "jpeg" /\ ("jpeg" \in ToSet(r.images) \/ r.inline = "jpeg")
              THEN [kind |-> "RegionCaptured"] ELSE Malformed
         ELSE IF OneImage(r.images) THEN [kind |-> "Screenshot"] ELSE Malformed

\* json_i32_number, json_u32_number and the scale factor: what does not fit is refused.
NormalizeNumber(c, r) ==
    IF r.number = "fits" THEN [kind |-> EvidenceResults[c.name]] ELSE Malformed

NormalizeEvidence(c, r) ==
    CASE c.name = "ListWindows" -> NormalizeWindows(r.windows)
      [] c.name = "LaunchApplication" -> NormalizeLaunch(r.windows)
      [] c.name = "InspectWindow" -> NormalizeSnapshot(c, r)
      [] c.name = "VerifyUiState" -> NormalizeVerification(c, r)
      [] c.name = "ActivateWindow" -> NormalizeActivation(c, r)
      [] c.name \in {"ClipboardRead", "ClipboardWrite"} -> NormalizeClipboard(c, r)
      [] c.name \in {"CaptureRegion", "Screenshot"} -> NormalizeCapture(c, r)
      [] OTHER -> NormalizeNumber(c, r)

-----------------------------------------------------------------------------
(* The Hub: does the result answer the command?                            *)

\* The range of a ReadProcessOutput is the one asked for, and says where it ends.
RangeAnswers(c, r) ==
    /\ r.source = "asked"
    /\ r.offset = c.offset
    /\ r.len <= c.max
    /\ r.next = r.offset + r.len
    /\ r.next <= r.total
    /\ r.eof <=> (r.next >= r.total)

\* A page of a file continues only when it is cut.
PageAnswers(c, r) ==
    /\ r.offset = c.offset
    /\ r.len <= c.max
    /\ r.next = IF r.truncated THEN r.offset + r.len ELSE -1

\* A directory page is sorted, lies after its cursor and ends with the next one.
ListingAnswers(c, r) ==
    /\ r.after = c.after
    /\ \A i, j \in DOMAIN r.names : i < j => r.names[i] < r.names[j]
    /\ \A n \in ToSet(r.names) : n > r.after
    /\ IF r.truncated THEN r.names # <<>> /\ r.next = Last(r.names) ELSE r.next = -1

\* A write is acknowledged for the bytes, the digest and the precondition asked.
WriteAnswers(c, r) == r.bytes = "asked" /\ r.digest = "asked" /\ r.created = c.absent

\* The arms of DeviceResult::matches_command.  There is none for the results of
\* jobs and of tests.
Arms == ActionResults @@ EvidenceResults @@ DeviceResults

MatchesCommand(c, r) ==
    \/ r.kind = "Error"
    \/ /\ c.name \in DOMAIN Arms
       /\ r.kind = Arms[c.name]
       /\ CASE c.name = "ReadProcessOutput" -> RangeAnswers(c, r)
            [] c.name = "ReadFile" -> PageAnswers(c, r)
            [] c.name = "ListDirectory" -> ListingAnswers(c, r)
            [] c.name = "WriteWorkspaceFile" -> WriteAnswers(c, r)
            [] OTHER -> TRUE

-----------------------------------------------------------------------------
(* Raw answers                                                             *)

WindowKinds == {"shown", "helper", "broken"}
Lists(S, n) == UNION {[1..k -> S] : k \in 0..n}

\* What a provider may answer, for the commands whose answer is looked into.
RawAnswers(c) ==
    CASE c.name \in {"ListWindows", "LaunchApplication"} ->
            [windows : Lists(WindowKinds, MaxWindows + 1)]
      [] c.name = "InspectWindow" ->
            [target : {"asked", "other"}, images : {<<>>, <<"png">>, <<"png", "png">>},
             elements : Lists([index : 1..2, parent : {0, 1, 2}], MaxElements + 1),
             complete : {"yes", "no", "omitted"}]
      [] c.name = "VerifyUiState" ->
            [verdicts : Lists({"satisfied", "unknown", "strange"}, 2),
             images : {<<>>, <<"png">>, <<"jpeg">>}]
      [] c.name = "ActivateWindow" ->
            [activated : {"yes", "no", "omitted"}, verified : {"yes", "no", "omitted"}]
      [] c.name \in {"ClipboardRead", "ClipboardWrite"} ->
            [types : 0..(MaxTypes + 1), text : {"none", "fits", "large"}]
      [] c.name = "CaptureRegion" ->
            [size : {0, 1}, mime : {"jpeg", "png"}, inline : {"none", "jpeg", "png"},
             images : {<<>>, <<"png">>, <<"jpeg">>, <<"png", "jpeg">>}]
      [] c.name = "Screenshot" ->
            [size : {0, 1}, images : {<<>>, <<"png">>, <<"jpeg">>, <<"png", "png">>}]
      [] c.name \in {"PointerPosition", "ListApplications", "ScreenGeometry"} -> [number : {"fits", "overflows", "omitted"}]
      [] OTHER -> {NoResult}

\* What the Agent's own stores answer: the range, page or entries that are there.
\* A result from a store of another version may disagree with the command.
OwnAnswers(c) ==
    CASE c.name = "ReadProcessOutput" ->
            [kind : {"ProcessOutputRange"}, source : {"asked", "other"}, offset : 0..MaxPage,
             len : 0..MaxPage, next : 0..MaxPage, total : 0..MaxPage, eof : BOOLEAN]
      [] c.name = "ReadFile" ->
            [kind : {"FileContents"}, offset : 0..MaxPage, len : 0..MaxPage,
             next : {-1} \cup (0..MaxPage), truncated : BOOLEAN]
      [] c.name = "ListDirectory" ->
            [kind : {"DirectoryEntries"}, after : 0..1, names : Lists(1..MaxPage, 2),
             truncated : BOOLEAN, next : {-1} \cup (1..MaxPage)]
      [] c.name = "WriteWorkspaceFile" ->
            [kind : {"WorkspaceFileWritten"}, bytes : {"asked", "other"},
             digest : {"asked", "other"}, created : BOOLEAN]
      [] OTHER -> [kind : {ResultKind[c.name]}]

-----------------------------------------------------------------------------
(* The path of one command                                                 *)

ResultsInit ==
    /\ command = [name |-> "none"]
    /\ phase = "idle"
    /\ raw = NoResult
    /\ result = NoResult
    /\ outcome = "none"

SendCommand ==
    /\ phase = "idle"
    /\ \E i \in DOMAIN CommandsAsked : \E c \in CommandsAsked[i] : command' = c
    /\ phase' = "sent"
    /\ UNCHANGED <<raw, result, outcome>>

ProviderReturns ==
    /\ phase = "sent"
    /\ command.name \in DOMAIN (ActionResults @@ EvidenceResults)
    /\ \E r \in RawAnswers(command) : raw' = r
    /\ phase' = "answered"
    /\ UNCHANGED <<command, result, outcome>>

\* The Agent's own arms; a job, a test or a store may also answer with an error.
DeviceReturns ==
    /\ phase = "sent"
    /\ command.name \in DOMAIN (DeviceResults @@ JobResults @@ TestResults)
    /\ \E r \in OwnAnswers(command) \cup [kind : {"Error"}, doubt : BOOLEAN] :
          result' = r
    /\ phase' = "resulted"
    /\ UNCHANGED <<command, raw, outcome>>

\* CuaMcpAdapter::execute from the tool's result on: an answer that cannot be
\* read fails an observation and leaves an action in doubt.
Normalize ==
    /\ phase = "answered"
    /\ LET r == IF command.name \in DOMAIN ActionResults
                THEN [kind |-> ActionResults[command.name]]
                ELSE NormalizeEvidence(command, raw)
       IN IF r = Malformed
          THEN /\ outcome' = IF Observes(command) THEN "failed" ELSE "indeterminate"
               /\ phase' = "over"
               /\ UNCHANGED result
          ELSE result' = r /\ phase' = "resulted" /\ UNCHANGED outcome
    /\ UNCHANGED <<command, raw>>

\* handle_result: an error is passed on; a result of another type ends the session,
\* and cleanup_session leaves what was dispatched in doubt, an observation too.
HubReceives ==
    /\ phase = "resulted"
    /\ outcome' = CASE result.kind = "Error" ->
                            IF result.doubt THEN "indeterminate" ELSE "failed"
                    [] result.kind # "Error" /\ MatchesCommand(command, result) -> "completed"
                    [] OTHER -> "indeterminate"
    /\ phase' = "over"
    /\ UNCHANGED <<command, raw, result>>

ResultsNext ==
    \/ SendCommand
    \/ ProviderReturns
    \/ DeviceReturns
    \/ Normalize
    \/ HubReceives

ResultsSpec == ResultsInit /\ [][ResultsNext]_resultVars

-----------------------------------------------------------------------------
(* Properties                                                              *)

\* A caller told its command is completed has the evidence the command asks
\* for: the snapshot is of its window, a parent is the element meant and it is
\* called complete only by the provider; every predicate has its verdict; a
\* list of windows that says nothing about being cut holds every window that
\* can be used; an activation of a window says whether that window came up; an
\* image is there exactly when it was asked for; a page goes on where it
\* ends, and no entry of a listing lies before its cursor or beyond the next (the normalize functions and
\* matches_command together).
CompletedHasItsEvidence ==
    outcome = "completed" =>
        /\ command.name = "InspectWindow" =>
              /\ raw.target = "asked"
              /\ result.complete => raw.complete = "yes"
              /\ \A i \in DOMAIN result.parents : result.parents[i] # 0 =>
                    raw.elements[result.parents[i]].index = raw.elements[i].parent
        /\ command.name = "VerifyUiState" => Len(result.verdicts) = command.predicates
        /\ command.name \in {"InspectWindow", "VerifyUiState"} =>
              (raw.images = <<>>) = ~command.image
        /\ command.name \in {"ListWindows", "LaunchApplication"} =>
              (~result.truncated =>
                  result.count = Cardinality({i \in DOMAIN raw.windows : raw.windows[i] = "shown"}))
        /\ (command.name = "ActivateWindow" /\ command.window) => result.verified \in {"yes", "no"}
        /\ command.name = "ReadProcessOutput" =>
              /\ result.offset = command.offset
              /\ ~result.eof => result.offset + result.len < result.total
        /\ (command.name = "ReadFile" /\ result.truncated) =>
              result.next = command.offset + result.len
        /\ (command.name = "ListDirectory" /\ result.truncated) =>
              \A n \in ToSet(result.names) : command.after < n /\ n <= result.next

\* An answer the Agent gives from a job or a test reaches the caller: the Hub
\* takes it as the answer to its command, binds or shows what it names and
\* keeps the session (handle_result, managed_job_start_as_with_id_and_metadata
\* after it, and their likes for status, output, renew and stop).
JobAnswersReachTheCaller ==
    (phase = "over" /\ command.name \in DOMAIN (JobResults @@ TestResults)) =>
        (result.kind # "Error" => outcome = "completed")
=============================================================================
