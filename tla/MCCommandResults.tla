-------------------------- MODULE MCCommandResults --------------------------
(***************************************************************************)
(* One command of each name, with the parameters its result is held        *)
(* against on both sides of what decides.                                  *)
(***************************************************************************)
EXTENDS CommandResults

WithParameters ==
    {"InspectWindow", "VerifyUiState", "ActivateWindow", "ReadProcessOutput", "ReadFile",
     "ListDirectory", "WriteWorkspaceFile"}

MCCommandsAsked == <<
    [name : DOMAIN ResultKind \ WithParameters],
    [name : {"InspectWindow"}, image : BOOLEAN],
    [name : {"VerifyUiState"}, image : BOOLEAN, predicates : 1..2],
    [name : {"ActivateWindow"}, window : BOOLEAN],
    [name : {"ReadProcessOutput", "ReadFile"}, offset : 0..1, max : 1..2],
    [name : {"ListDirectory"}, after : 0..1],
    [name : {"WriteWorkspaceFile"}, absent : BOOLEAN] >>
=============================================================================
