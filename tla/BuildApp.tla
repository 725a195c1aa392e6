------------------------------ MODULE BuildApp ------------------------------
(***************************************************************************)
(* The build service together with the pages that use it: BuildPage.tsx    *)
(* and ResultPage.tsx over the state of AppContext.tsx, and the sidebar,   *)
(* whose links lead away from any page at any time.                        *)
(*                                                                         *)
(* BuildPage listens to build:progress, build:complete and build:error     *)
(* while it is mounted, and keeps isBuilding in a state of its own that an *)
(* unmount loses; buildProgress, buildResult and the wizard's choices are  *)
(* in the application context and survive.                                 *)
(***************************************************************************)
EXTENDS BuildService

VARIABLES
    page,           \* the page on screen: "build", "result" or another one
    isBuilding,     \* BuildPage's own flag
    buildProgress,  \* the stage on screen; "undefined" before the first build
    buildResult,    \* the build whose result the context holds, or NoBuild
    configured,     \* report, macOS version and SMBIOS are all chosen
    asked           \* history: the last build:start posted since RESET, or NoBuild

pageVars == <<page, isBuilding>>
contextVars == <<buildProgress, buildResult, configured>>
uiVars == <<pageVars, contextVars, asked>>
vars == <<serviceVars, uiVars>>

Pages == {"build", "result", "other"}

AppTypeOK ==
    /\ ServiceTypeOK
    /\ page \in Pages
    /\ isBuilding \in BOOLEAN
    /\ buildProgress \in ProgressStages \cup {"undefined", "error"}
    /\ buildResult \in Starts \cup {NoBuild}
    /\ configured \in BOOLEAN
    /\ asked \in Starts \cup {NoBuild}

Init ==
    /\ ServiceInit
    /\ page = "other"
    /\ isBuilding = FALSE
    /\ buildProgress = "undefined"
    /\ buildResult = NoBuild
    /\ configured = FALSE
    /\ asked = NoBuild

-----------------------------------------------------------------------------
(* What the user does.                                                     *)

\* The wizard's earlier pages fill the context.
Configure ==
    /\ page = "other"
    /\ configured' = TRUE
    /\ UNCHANGED <<serviceVars, pageVars, buildProgress, buildResult, asked>>

\* A link of the sidebar, or a page's own navigate(): the page that is left
\* unmounts, and BuildPage always mounts with isBuilding false.
Navigate(to) ==
    /\ to # page
    /\ page' = to
    /\ isBuilding' = FALSE
    /\ UNCHANGED <<serviceVars, contextVars, asked>>

\* startBuild.  The payload carries the SMBIOS exactly when the context has one.
StartBuild(b) ==
    /\ PostStart(b, configured)
    /\ isBuilding' = TRUE
    /\ buildProgress' = "downloading-opencore"
    /\ asked' = b
    /\ UNCHANGED <<kext, outcome, handlerVars, outbox, page, buildResult, configured>>

\* Variant: the start button shows whenever no build is shown as running.
ClickStartAgain(b) ==
    /\ page = "build" /\ ~isBuilding /\ configured
    /\ StartBuild(b)

\* The start button is in the summary panel, the retry button in the error panel,
\* which does not look at canBuild.
ClickStart(b) ==
    /\ page = "build" /\ ~isBuilding /\ buildProgress = "undefined" /\ configured
    /\ StartBuild(b)

ClickRetry(b) ==
    /\ page = "build" /\ buildProgress = "error"
    /\ StartBuild(b)

\* cancelBuild, from the progress panel.
ClickCancel(c) ==
    /\ page = "build" /\ isBuilding /\ buildProgress # "error"
    /\ PostCancel(c)
    /\ isBuilding' = FALSE
    /\ UNCHANGED <<buildVars, buildCts, cancelled, outbox, page, contextVars, asked>>

\* startNew on the result page: RESET the context and go home.
NewBuild ==
    /\ page = "result" /\ buildResult # NoBuild
    /\ page' = "other"
    /\ buildProgress' = "undefined"
    /\ buildResult' = NoBuild
    /\ configured' = FALSE
    /\ asked' = NoBuild
    /\ UNCHANGED <<serviceVars, isBuilding>>

-----------------------------------------------------------------------------
(* What the messages do.                                                   *)

ShowProgress(m) ==
    /\ m.event = "build:progress"
    /\ buildProgress' = m.stage
    /\ UNCHANGED <<page, isBuilding, buildResult>>

\* build:complete stores the result and leaves for the result page.
ShowComplete(m) ==
    /\ m.event = "build:complete"
    /\ isBuilding' = FALSE
    /\ buildResult' = m.build
    /\ page' = "result"
    /\ UNCHANGED buildProgress

\* Variant: the handler of build:error forgets setIsBuilding(false).
ShowErrorOnly(m) ==
    /\ m.event = "build:error"
    /\ buildProgress' = "error"
    /\ UNCHANGED <<page, isBuilding, buildResult>>

ShowError(m) ==
    /\ m.event = "build:error"
    /\ isBuilding' = FALSE
    /\ buildProgress' = "error"
    /\ UNCHANGED <<page, buildResult>>

Listened == TerminalEvents \cup {"build:progress"}

\* dispatch: a message nobody listens to is dropped.
DispatchMessage ==
    LET m == Head(outbox)
    IN  /\ Dispatched
        /\ IF page = "build" /\ m.event \in Listened
             THEN ShowProgress(m) \/ ShowComplete(m) \/ ShowError(m)
             ELSE UNCHANGED <<page, isBuilding, buildProgress, buildResult>>
        /\ UNCHANGED <<buildVars, handlerVars, configured, asked>>

-----------------------------------------------------------------------------
User ==
    \/ Configure
    \/ \E to \in Pages : Navigate(to)
    \/ \E b \in Starts : ClickStart(b) \/ ClickRetry(b)
    \/ \E c \in Cancels : ClickCancel(c)
    \/ NewBuild

AppNext ==
    \/ Service /\ UNCHANGED uiVars
    \/ User
    \/ DispatchMessage

AppSpec ==
    /\ Init
    /\ [][AppNext]_vars
    /\ \A b \in Starts : /\ WF_vars(HandleStart(b) /\ UNCHANGED uiVars)
                         /\ WF_vars(Build(b) /\ UNCHANGED uiVars)
    /\ \A c \in Cancels : WF_vars(HandleCancel(c) /\ UNCHANGED uiVars)
    /\ WF_vars(DispatchMessage)

-----------------------------------------------------------------------------
(* Properties.                                                             *)

Terminal(m) == m.event \in TerminalEvents

\* A build:start is outstanding until its terminal event was dispatched.
Outstanding(b) ==
    \/ pc[b] \notin {"idle", "over"}
    \/ \E i \in 1 .. Len(outbox) : outbox[i].build = b /\ Terminal(outbox[i])

\* The page never has two builds outstanding, however the user navigates, cancels,
\* retries and starts over: events carry no build, and the page could not tell
\* whose they are.  What keeps it so is only which buttons BuildPage.tsx shows
\* (BuildPage.tsx:105, 141, 161-167, 239) and that every accepted build says its last
\* word in a terminal event.
OneBuildOutstanding ==
    \A b1, b2 \in Starts : Outstanding(b1) /\ Outstanding(b2) => b1 = b2

\* The page shows a running build only while one is: the flag isBuilding belongs
\* to the last build asked for, and that build is outstanding (or its handler
\* threw, and the page was never told).
SpinnerHasBuild ==
    isBuilding => /\ asked # NoBuild
                  /\ Outstanding(asked) \/ outcome[asked] = "threw"

\* A build that is not over loses its token in the handler of a build:cancel and
\* nowhere else.  Every build:start cancels what it finds in buildCts as well
\* (HandlersSetup.cs:312), but with these pages what it finds there is over.
OnlyUserCancels ==
    [][\A b \in Starts : b \in cancelled' \ cancelled /\ pc[b] # "over"
                            => \E c \in Cancels : LockCancel(c)]_vars

\* A result on screen is that of the last build asked for, and was written.
ResultIsOfAskedBuild ==
    buildResult # NoBuild => buildResult = asked /\ outcome[asked] = "complete"

\* The page stops showing a build as running: the build ends, or the user cancels
\* or leaves; only a build:start whose handler threw keeps it waiting for ever.
SpinnerStops ==
    \A b \in Starts :
        isBuilding /\ asked = b ~> ~isBuilding \/ asked # b \/ outcome[b] = "threw"

\* "Complete a build first to see results." (locales/en.json:206) is what the
\* result page says when the context has no result.  It says so only when the
\* last build asked for has not completed.
ResultPageTellsTheTruth ==
    page = "result" /\ asked # NoBuild /\ outcome[asked] = "complete" /\ ~Outstanding(asked)
        => buildResult = asked
=============================================================================
