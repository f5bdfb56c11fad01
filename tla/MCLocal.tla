------------------------------ MODULE MCLocal ------------------------------
(***************************************************************************)
(* The Companion's own services, for TLC: other computers and the router   *)
(* between them, language servers, memory and its plan, the folders, the   *)
(* review desk, the settings, the ways to be reached and the desktop's     *)
(* shell.  They share no variable, so each is explored alone: scene says   *)
(* which, and the others stay in one initial state.  Which computer shares *)
(* the folder, and which workspace is registered, makes no difference.     *)
(***************************************************************************)
EXTENDS Machines, Router, LspConn, Lsp, Memory, MemoryPlan, Settings, Connect, SignIn, Download,
        Workspaces, Desk, Shell

CONSTANTS r1, r2, src

VARIABLE scene

abroadVars == <<machinesVars, routerVars, connVars, lspVars>>
keptVars == <<memoryVars, planVars, workspacesVars, deskVars>>
reachVars == <<settingsVars, connectVars, signInVars, downloadVars, shellVars>>
localVars == <<abroadVars, keptVars, reachVars, scene>>

Perms == Permutations(Savers)

\* Tables of route rules: one that routes the saved file, one that holds it for a
\* question, one that is not about it, in both orders, and the same rule twice.
Routes == [id |-> r1, action |-> "route", dest |-> src, hit |-> TRUE]
Holds == [id |-> r2, action |-> "ask", dest |-> NoPlace, hit |-> TRUE]
Others == [id |-> r2, action |-> "route", dest |-> src, hit |-> FALSE]
MCOrders == {<<>>, <<Routes, Holds>>, <<Holds, Routes>>, <<Others>>, <<Routes, Routes>>}

LocalInit ==
  /\ MachinesInit /\ RouterInit /\ ConnInit /\ LspInit /\ MemoryInit /\ PlanInit /\ SettingsInit
  /\ ConnectInit /\ SignInInit /\ DownloadInit /\ WorkspacesInit /\ DeskInit /\ ShellInit
  /\ scene \in {"machines", "router", "conn", "lsp", "memory", "plan", "settings", "connect", "sign-in",
                "download", "workspaces", "desk", "shell"}
  /\ shares = [f \in SharedFolders |-> CHOOSE m \in Computers : TRUE]
  /\ scene # "settings" => file.doc = Defaults
  /\ scene # "connect" => first = NoTunnel /\ published = Unpublished
  /\ rows[CHOOSE w \in Workspaces : TRUE].root = CHOOSE f \in Folders : TRUE
  /\ scene # "desk" => rules = <<>>

LocalNext ==
  /\ UNCHANGED scene
  /\ \/ /\ scene = "machines" /\ MachinesNext
        /\ UNCHANGED <<routerVars, connVars, lspVars, keptVars, reachVars>>
     \/ /\ scene = "router" /\ RouterNext
        /\ UNCHANGED <<machinesVars, connVars, lspVars, keptVars, reachVars>>
     \/ /\ scene = "conn" /\ ConnNext
        /\ UNCHANGED <<machinesVars, routerVars, lspVars, keptVars, reachVars>>
     \/ /\ scene = "lsp" /\ LspNext
        /\ UNCHANGED <<machinesVars, routerVars, connVars, keptVars, reachVars>>
     \/ /\ scene = "memory" /\ MemoryNext
        /\ UNCHANGED <<planVars, workspacesVars, deskVars, abroadVars, reachVars>>
     \/ /\ scene = "plan" /\ PlanNext
        /\ UNCHANGED <<memoryVars, workspacesVars, deskVars, abroadVars, reachVars>>
     \/ /\ scene = "workspaces" /\ WorkspacesNext
        /\ UNCHANGED <<memoryVars, planVars, deskVars, abroadVars, reachVars>>
     \/ /\ scene = "desk" /\ DeskNext
        /\ UNCHANGED <<memoryVars, planVars, workspacesVars, abroadVars, reachVars>>
     \/ /\ scene = "settings" /\ SettingsNext
        /\ UNCHANGED <<connectVars, signInVars, downloadVars, shellVars, abroadVars, keptVars>>
     \/ /\ scene = "connect" /\ ConnectNext
        /\ UNCHANGED <<settingsVars, signInVars, downloadVars, shellVars, abroadVars, keptVars>>
     \/ /\ scene = "sign-in" /\ SignInNext
        /\ UNCHANGED <<settingsVars, connectVars, downloadVars, shellVars, abroadVars, keptVars>>
     \/ /\ scene = "download" /\ DownloadNext
        /\ UNCHANGED <<settingsVars, connectVars, signInVars, shellVars, abroadVars, keptVars>>
     \/ /\ scene = "shell" /\ ShellNext
        /\ UNCHANGED <<settingsVars, connectVars, signInVars, downloadVars, abroadVars, keptVars>>

LocalSpec == LocalInit /\ [][LocalNext]_localVars
=============================================================================
