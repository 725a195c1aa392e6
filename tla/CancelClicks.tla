---------------------------- MODULE CancelClicks ----------------------------
(***************************************************************************)
(* BuildApp with the memory of what each click on Cancel was meant for: a  *)
(* history variable, which no step of the program reads.                   *)
(***************************************************************************)
EXTENDS BuildApp

VARIABLE aimed  \* history: the build on screen at the click, or NoBuild before

clickVars == <<vars, aimed>>

ClicksInit == Init /\ aimed = [c \in Cancels |-> NoBuild]

\* The step of the pages or the service, with what it was aimed at when it is a
\* click on Cancel.
ClicksNext ==
    /\ AppNext
    /\ aimed' = [c \in Cancels |->
                    IF cancelPc[c] = "idle" /\ cancelPc'[c] = "posted" THEN asked ELSE aimed[c]]

ClicksSpec == ClicksInit /\ [][ClicksNext]_clickVars

\* The answer "build:cancelled" (HandlersSetup.cs:403) is true of the build that was on
\* screen when Cancel was clicked: once the answer is sent, that build does not complete.
\* It does in two ways: build:cancel is handled while build:start waits for its
\* acknowledgement to be sent (HandlersSetup.cs:306), when buildCts is still that of an
\* earlier build or null; or after the kext loop has looked at the token for the last
\* time (BuildService.cs:177).
CancelledBuildStops ==
    [][\A c \in Cancels :
          cancelPc[c] = "over" /\ aimed[c] # NoBuild /\ outcome[aimed[c]] = "pending"
              => outcome'[aimed[c]] # "complete"]_clickVars
=============================================================================
