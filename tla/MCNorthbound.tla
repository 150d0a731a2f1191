---------------------------- MODULE MCNorthbound ----------------------------
(***************************************************************************)
(* What a client meets at the Hub: the access checks, the tool catalogue,  *)
(* interaction contexts and the references of its jobs and outputs, the    *)
(* paging of what they hold, and the translation of calls into commands    *)
(* and of answers into results.  They share no state here, so a behaviour  *)
(* picks one of them and leaves the others in an initial state.            *)
(***************************************************************************)
EXTENDS InteractionContexts, HubReferences, OutputPaging, ToolContracts,
        ToolCatalogue, BrowserContracts, MCCommandResults, NorthboundAccess, TLC

\* Two calls at a time.  In two menus two people have a context each and guess
\* each other's refs or let contexts lapse; in the others one person works in
\* one context, and together they use every tool.
Shared(guess, tools) == [tools |-> tools, people |-> Owners, contexts |-> Contexts,
                         guess |-> guess, lapse |-> ~guess, refs |-> 2]
Alone(n, tools) == [tools |-> tools, people |-> {CHOOSE o \in Owners : TRUE},
                    contexts |-> {CHOOSE c \in Contexts : TRUE},
                    guess |-> FALSE, lapse |-> FALSE, refs |-> n]

ContextMenus ==
    {Shared(TRUE, {"open", "window", "element"}),
     Shared(FALSE, {"open", "window", "element"}),
     Alone(3, {"open", "close", "expand", "desktop", "element", "window"}),
     Alone(4, {"open", "bind", "inspect", "continue", "click"}),
     Alone(2, {"open", "bind", "inspect", "navigate", "type"}),
     Alone(2, {"open", "bind", "dialog", "answer", "navigate"}),
     Alone(3, {"open", "bind", "inspect", "stage", "upload"}),
     Alone(3, {"open", "bind", "inspect", "pointer", "download"})}

\* A caller may be granted everything, only observation, or two of the dangerous
\* capabilities; an agent advertises everything or what a host without a desktop has.
Everything == Capabilities
HostOnly == {"ExecuteProcess", "Shell", "ReadProcessOutput", "ManagedJobControl",
             "ManagedJobObserve", "ReadFile", "ListDirectory", "WriteWorkspaceFile"}
GrantMenus == {Everything, Observing, {"ExecuteProcess", "ManagedJobControl"}}
AdvertMenus == {Everything, HostOnly}

\* The calls a client makes: for every tool the combinations of its fields the
\* layers tell apart, with sizes on both sides of each limit.
Ids == {Absent, 0, 1}
Deliveries == {"none", "background", "foreground"}

MCToolRequests == <<
    [tool : {"click"}, ctx : BOOLEAN, pid : Ids, wid : Ids, x : BOOLEAN, y : {TRUE},
     kind : {"none", "desktop_physical"}, ref : {FALSE}, count : 1..4,
     mods : {<<>>, <<"meta">>, <<"meta", "meta">>}, delivery : Deliveries,
     action : {"none", "press"}],
    [tool : {"click"}, ctx : BOOLEAN, pid : Ids, wid : Ids, x : {FALSE}, y : BOOLEAN,
     ref : {TRUE}, count : 1..3, mods : {<<>>, <<"meta">>}, delivery : {"none", "foreground"},
     button : {"none", "right"}, action : {"none", "press", "open"}],
    [tool : {"drag"}, ctx : BOOLEAN, pid : Ids, wid : Ids,
     kind : {"none", "desktop_physical", "window_physical"}, mods : {<<>>, <<"meta", "meta">>},
     delivery : Deliveries, duration : {0, 10000, 10001}, steps : {Absent, 0, 201},
     button : {"none", "left"}],
    [tool : {"type_text", "keyboard_input"}, ctx : BOOLEAN, pid : Ids, wid : Ids, x : BOOLEAN,
     y : BOOLEAN, kind : {"none", "desktop", "window"}, ref : BOOLEAN,
     mods : {<<>>, <<"hyper">>}, delivery : {"none", "foreground"}, key : BOOLEAN],
    [tool : {"type_text"}, ctx : BOOLEAN, pid : {1}, wid : {1}, delay : {Absent, 0, 200, 201},
     text : {0, 1, 96, 97, 379, 380, 687, 688, 32768, 32769}],
    [tool : {"scroll"}, ctx : BOOLEAN, pid : Ids, wid : Ids, x : BOOLEAN, y : BOOLEAN,
     kind : {"none", "window", "desktop_point"}, delivery : Deliveries, count : {0, 1, 50, 51}],
    [tool : ScopedTools \cup {"inspect_window", "set_window_frame", "invoke_menu", "screenshot"},
     ctx : BOOLEAN, pid : Ids, wid : Ids, limits : BOOLEAN, width : {0, 1}, origin : {0, MaxI32}],
    [tool : {"set_ui_value"}, ctx : BOOLEAN, ref : BOOLEAN, pid : Ids, wid : Ids,
     limits : BOOLEAN],
    [tool : {"verify_ui_state"}, ctx : BOOLEAN, pid : Ids, wid : Ids, limits : BOOLEAN,
     duration : {0, 10000, 10001}],
    [tool : {"launch_application", "terminate_application", "activate_window", "list_apps"},
     pid : Ids, wid : Ids, limits : BOOLEAN, ident : {"none", "fits", "large"},
     name : {"none", "blank", "fits", "large"}] >>

MCBrowserAsks == <<
    [kind : {"prepare"}, refs : BOOLEAN, pid : {0, 1}, window : {Unset, "some"},
     launch : BOOLEAN, profile : {"isolated_new", "isolated_named", "existing"},
     name : {-1, 0, 1, MaxCuaName, MaxCuaName + 1, MaxHubName + 1}, plain : BOOLEAN],
    [kind : {"bind"}, pid : {0, 1}, window : {"zero", "some"}],
    [kind : {"inspect"}, refs : BOOLEAN, scope : {Unset, "given"}, query : {-1, 0, 1},
     page : {Unset, "given"}, shot : BOOLEAN],
    [kind : {"navigate"}, refs : BOOLEAN, url : {"http", "about", "file", "malformed"}],
    [kind : {"click"}, refs : BOOLEAN, spot : {"element", "viewport"},
     route : {"trusted", "dom_event"}],
    [kind : {"type"}, size : {0, 1, MaxText, MaxText + 1}, replace : BOOLEAN],
    [kind : {"dialog"}, dialog : {Unset, "given"}, verb : {"inspect", "accept", "dismiss"},
     prompt : {-1, 0, MaxPrompt, MaxPrompt + 1}, delivery : {"background", "foreground"}],
    [kind : {"pointer"}, gesture : {"hover", "right_click", "double_click", "scroll", "drag"},
     dest : {Unset, "given"}, delta : {0, 1, MaxDelta, MaxDelta + 1},
     route : {"trusted", "dom_event"}],
    [kind : {"upload"}, files : {<<0, TRUE>>, <<1, TRUE>>, <<2, FALSE>>, <<MaxFiles, TRUE>>,
                                 <<MaxFiles + 1, TRUE>>}],
    [kind : {"download"}, plain : BOOLEAN, size : {0, 1, MaxDownload, MaxDownload + 1}] >>

VARIABLE part

\* Bound: of the calls that make references a behaviour uses two.
MaxMakersUsed == 2
FewMakers == Cardinality({o \in Makers : start[o] # Rest}) <= MaxMakersUsed

northboundVars == <<contextVars, refVars, pagingVars, toolVars, catalogueVars,
                    browserVars, resultVars, accessVars, part>>

NorthboundInit ==
    /\ part \in {"contexts", "refs", "paging", "tools", "catalogue", "browser",
                 "results", "access"}
    /\ ContextsInit /\ (part # "contexts" => menu.guess)
    /\ RefsInit /\ PagingInit /\ ToolsInit /\ BrowserInit /\ ResultsInit
    /\ CatalogueInit /\ (part # "catalogue" => granted = Observing)
    /\ AccessInit /\ (part # "access" => mode = "proxy" /\ standing = Keys)

NorthboundNext ==
    /\ UNCHANGED part
    /\ \/ part = "contexts" /\ ContextsNext
          /\ UNCHANGED <<refVars, pagingVars, toolVars, catalogueVars, browserVars,
                         resultVars, accessVars>>
       \/ part = "refs" /\ RefsNext /\ FewMakers'
          /\ UNCHANGED <<contextVars, pagingVars, toolVars, catalogueVars, browserVars,
                         resultVars, accessVars>>
       \/ part = "paging" /\ PagingNext
          /\ UNCHANGED <<contextVars, refVars, toolVars, catalogueVars, browserVars,
                         resultVars, accessVars>>
       \/ part = "tools" /\ ToolsNext
          /\ UNCHANGED <<contextVars, refVars, pagingVars, catalogueVars, browserVars,
                         resultVars, accessVars>>
       \/ part = "catalogue" /\ CatalogueNext
          /\ UNCHANGED <<contextVars, refVars, pagingVars, toolVars, browserVars,
                         resultVars, accessVars>>
       \/ part = "browser" /\ BrowserNext
          /\ UNCHANGED <<contextVars, refVars, pagingVars, toolVars, catalogueVars,
                         resultVars, accessVars>>
       \/ part = "results" /\ ResultsNext
          /\ UNCHANGED <<contextVars, refVars, pagingVars, toolVars, catalogueVars,
                         browserVars, accessVars>>
       \/ part = "access" /\ AccessNext
          /\ UNCHANGED <<contextVars, refVars, pagingVars, toolVars, catalogueVars,
                         browserVars, resultVars>>

NorthboundSpec == NorthboundInit /\ [][NorthboundNext]_northboundVars

\* Exchanging the two members of each set, in all the sets at once, and the two
\* signing keys besides.
Pairs == {ContextCalls, Calls, Clients}
Exchanged(sets) ==
    {p \in Permutations(UNION sets) :
        \/ \A x \in UNION sets : p[x] = x
        \/ \A S \in sets : \A x \in S : p[x] \in S \ {x}}
NorthboundSymmetry == {p @@ q : p \in Exchanged(Pairs), q \in Exchanged({Keys})}
=============================================================================
