---------------------------- MODULE BuildService ----------------------------
(***************************************************************************)
(* The build service of the desktop application: the handlers of           *)
(* build:start and build:cancel (Core/Bridge/HandlersSetup.cs) and the     *)
(* task that each accepted build:start spawns (BuildService.BuildAsync).   *)
(*                                                                         *)
(* MessageRouter.Handle runs every handler on a thread-pool thread, so     *)
(* handlers of different requests, and the builds they spawn, interleave   *)
(* at every await; within one request they run in sequence, which is why   *)
(* one program counter per build:start request is enough.  Two pieces of   *)
(* state are shared: buildCts, guarded by buildCtsLock, and the channel to *)
(* the web view, on which every send is awaited.                           *)
(*                                                                         *)
(* The client is arbitrary here: it may post any request at any time.      *)
(* BuildApp.tla composes the service with the page that really posts them. *)
(***************************************************************************)
EXTENDS Naturals, Sequences

CONSTANTS
    Starts,    \* the build:start requests; each one spawns at most one build
    Cancels,   \* the build:cancel requests
    NoBuild,   \* buildCts when it is null
    NumKexts,  \* how many enabled kexts the payload of a request names
    MaxOutbox  \* bound on the messages that wait for the web view

ASSUME ServiceAssumption ==
    /\ NoBuild \notin Starts
    /\ NumKexts \in Nat
    /\ MaxOutbox \in Nat \ {0}

VARIABLES
    pc,          \* where the handler of a build:start, then its build, stands
    kext,        \* the loop counter of the build's kext loop, from 1
    outcome,     \* how the request ended
    hasSmbios,   \* the requests whose payload carries an SMBIOS
    cancelPc,    \* where the handler of a build:cancel stands
    buildCts,    \* the request whose token source buildCts holds
    cancelled,   \* the requests whose token source was cancelled
    outbox       \* the messages sent to the web view and not yet dispatched

handlerVars == <<cancelPc, buildCts, cancelled>>
buildVars   == <<pc, kext, outcome, hasSmbios>>
serviceVars == <<buildVars, handlerVars, outbox>>

(***************************************************************************)
(* The stages of a request, in order.  "kexts" is the head of the kext     *)
(* loop, the only place where a build looks at its token; "kext" is inside *)
(* its body.  "unwound" is past the finally block, before the last send.   *)
(***************************************************************************)
HandlerStages  == {"idle", "posted", "acked", "locked"}
BuildStages    == {"folders", "opencore", "kexts", "kext", "config", "usb", "package"}
Stages         == HandlerStages \cup BuildStages \cup {"unwound", "over"}
Outcomes       == {"pending", "complete", "cancelled", "failed", "refused", "threw"}
TerminalEvents == {"build:complete", "build:error"}

\* The stages that build:progress names; "none" on every other message.
ProgressStages == {"downloading-opencore", "downloading-kexts", "generating-config",
                   "generating-usb-map", "complete"}

\* Messages do not carry the build on the wire (their requestId is null): the
\* field build is there for the properties, and no client action reads it.
Messages == [event : {"build:started", "build:progress", "build:cancelled", "build:start"}
                        \cup TerminalEvents,
             build : Starts \cup {NoBuild},
             stage : ProgressStages \cup {"none"}]

Message(event, b, stage) == [event |-> event, build |-> b, stage |-> stage]

ServiceTypeOK ==
    /\ pc \in [Starts -> Stages]
    /\ kext \in [Starts -> 1 .. NumKexts + 1]
    /\ outcome \in [Starts -> Outcomes]
    /\ hasSmbios \in SUBSET Starts
    /\ cancelPc \in [Cancels -> {"idle", "posted", "locked", "over"}]
    /\ buildCts \in Starts \cup {NoBuild}
    /\ cancelled \in SUBSET Starts
    /\ outbox \in Seq(Messages)

ServiceInit ==
    /\ pc = [b \in Starts |-> "idle"]
    /\ kext = [b \in Starts |-> 1]
    /\ outcome = [b \in Starts |-> "pending"]
    /\ hasSmbios = {}
    /\ cancelPc = [c \in Cancels |-> "idle"]
    /\ buildCts = NoBuild
    /\ cancelled = {}
    /\ outbox = <<>>

-----------------------------------------------------------------------------
(* The channel to the web view.                                            *)

\* window.SendAsync: a send waits until the web view's queue takes it.
Send(m) == /\ Len(outbox) < MaxOutbox
           /\ outbox' = Append(outbox, m)

\* The front end's dispatch takes the messages in the order they were sent.
Dispatched == /\ outbox # <<>>
              /\ outbox' = Tail(outbox)

GoTo(b, from, to) == /\ pc[b] = from
                     /\ pc' = [pc EXCEPT ![b] = to]

End(b, how) == outcome' = [outcome EXCEPT ![b] = how]

-----------------------------------------------------------------------------
(* The client's side of the two requests.                                  *)

PostStart(b, smbios) ==
    /\ GoTo(b, "idle", "posted")
    /\ hasSmbios' = IF smbios THEN hasSmbios \cup {b} ELSE hasSmbios

PostCancel(c) ==
    /\ cancelPc[c] = "idle"
    /\ cancelPc' = [cancelPc EXCEPT ![c] = "posted"]

-----------------------------------------------------------------------------
(* The handler of build:start.                                             *)

\* The acknowledgement goes out before the lock is taken.
AckStart(b) ==
    /\ GoTo(b, "posted", "acked")
    /\ Send(Message("build:started", b, "none"))
    /\ UNCHANGED <<kext, outcome, hasSmbios, handlerVars>>

\* Variant: the token source found in buildCts is not cancelled.
LockStartForgets(b) ==
    /\ GoTo(b, "acked", "locked")
    /\ buildCts' = b
    /\ UNCHANGED <<kext, outcome, hasSmbios, cancelPc, cancelled, outbox>>

\* Under the lock: cancel the token source in buildCts, if any, install a new one.
LockStart(b) ==
    /\ GoTo(b, "acked", "locked")
    /\ cancelled' = cancelled \cup ({buildCts} \ {NoBuild})
    /\ buildCts' = b
    /\ UNCHANGED <<kext, outcome, hasSmbios, cancelPc, outbox>>

\* No SMBIOS in the payload: answer build:error and return.  The new token
\* source stays in buildCts and the build it replaced stays cancelled.
RefuseStart(b) ==
    /\ b \notin hasSmbios
    /\ GoTo(b, "locked", "over")
    /\ End(b, "refused")
    /\ Send(Message("build:error", b, "none"))
    /\ UNCHANGED <<kext, hasSmbios, handlerVars>>

\* Reading the payload throws (a field of another JSON type than expected).
\* The router answers with the action as the event; the invocation that could
\* have taken it by requestId was settled by the acknowledgement.
StartThrows(b) ==
    /\ GoTo(b, "locked", "over")
    /\ End(b, "threw")
    /\ Send(Message("build:start", b, "none"))
    /\ UNCHANGED <<kext, hasSmbios, handlerVars>>

\* The payload is read; the build becomes a task of its own.
SpawnBuild(b) ==
    /\ b \in hasSmbios
    /\ GoTo(b, "locked", "folders")
    /\ UNCHANGED <<kext, outcome, hasSmbios, handlerVars, outbox>>

-----------------------------------------------------------------------------
(* The handler of build:cancel.                                            *)

\* Variant: the cancelled token source stays in buildCts.
LockCancelKeepsSlot(c) ==
    /\ cancelPc[c] = "posted"
    /\ cancelPc' = [cancelPc EXCEPT ![c] = "locked"]
    /\ cancelled' = cancelled \cup ({buildCts} \ {NoBuild})
    /\ UNCHANGED <<buildVars, buildCts, outbox>>

LockCancel(c) ==
    /\ cancelPc[c] = "posted"
    /\ cancelPc' = [cancelPc EXCEPT ![c] = "locked"]
    /\ cancelled' = cancelled \cup ({buildCts} \ {NoBuild})
    /\ buildCts' = NoBuild
    /\ UNCHANGED <<buildVars, outbox>>

AnswerCancel(c) ==
    /\ cancelPc[c] = "locked"
    /\ cancelPc' = [cancelPc EXCEPT ![c] = "over"]
    /\ Send(Message("build:cancelled", NoBuild, "none"))
    /\ UNCHANGED <<buildVars, buildCts, cancelled>>

-----------------------------------------------------------------------------
(* BuildAsync.  A stage sends its progress and then does its work; the     *)
(* progress messages of one stage are one message here.                    *)

Advance(b, from, to, stage) ==
    /\ GoTo(b, from, to)
    /\ Send(Message("build:progress", b, stage))
    /\ UNCHANGED <<kext, outcome, hasSmbios, handlerVars>>

MakeFolders(b) == Advance(b, "folders", "opencore", "downloading-opencore")

\* TryDownloadOpenCoreAsync catches every exception, that of a cancelled token
\* included, and answers false; BuildAsync goes on either way.
DownloadOpenCore(b) == Advance(b, "opencore", "kexts", "downloading-opencore")

\* Variant: the loop catches the exception and tries the same kext again.
KextLoopRetries(b) ==
    /\ kext[b] <= NumKexts
    /\ b \in cancelled
    /\ GoTo(b, "kexts", "kexts")
    /\ UNCHANGED <<kext, outcome, hasSmbios, handlerVars, outbox>>

\* ct.ThrowIfCancellationRequested() at the head of the kext loop.
KextLoopCancelled(b) ==
    /\ kext[b] <= NumKexts
    /\ b \in cancelled
    /\ GoTo(b, "kexts", "unwound")
    /\ End(b, "cancelled")
    /\ UNCHANGED <<kext, hasSmbios, handlerVars, outbox>>

\* Variants: the token is not looked at; the loop runs one turn too far.
StartKextUnasked(b) ==
    /\ kext[b] <= NumKexts
    /\ Advance(b, "kexts", "kext", "downloading-kexts")

StartKextPastEnd(b) ==
    /\ kext[b] <= NumKexts + 1
    /\ b \notin cancelled
    /\ Advance(b, "kexts", "kext", "downloading-kexts")

StartKext(b) ==
    /\ kext[b] <= NumKexts
    /\ b \notin cancelled
    /\ Advance(b, "kexts", "kext", "downloading-kexts")

\* The body of the loop skips the kext, installs it or swallows the exception,
\* that of a cancelled token included.
FinishKext(b) ==
    /\ GoTo(b, "kext", "kexts")
    /\ kext' = [kext EXCEPT ![b] = @ + 1]
    /\ UNCHANGED <<outcome, hasSmbios, handlerVars, outbox>>

KextsReady(b) ==
    /\ kext[b] > NumKexts
    /\ Advance(b, "kexts", "config", "downloading-kexts")

GenerateConfig(b) == Advance(b, "config", "usb", "generating-config")

\* GenerateUsbMapAsync takes the token and never looks at it.
GenerateUsbMap(b) == Advance(b, "usb", "package", "generating-usb-map")

\* Variant: build:complete goes out before the finally block, not after the task.
PackageZipReports(b) ==
    /\ GoTo(b, "package", "unwound")
    /\ End(b, "complete")
    /\ Send(Message("build:complete", b, "none"))
    /\ UNCHANGED <<kext, hasSmbios, handlerVars>>

\* The zip is written, the last progress sent and the finally block run.
PackageZip(b) ==
    /\ GoTo(b, "package", "unwound")
    /\ End(b, "complete")
    /\ Send(Message("build:progress", b, "complete"))
    /\ UNCHANGED <<kext, hasSmbios, handlerVars>>

\* File I/O or the generators throw.  The downloads of OpenCore and of the kexts
\* catch everything, but not the making of the folder for the kexts between them.
StageThrows(b) ==
    /\ pc[b] \in {"folders", "opencore", "config", "usb", "package"}
    /\ pc' = [pc EXCEPT ![b] = "unwound"]
    /\ End(b, "failed")
    /\ UNCHANGED <<kext, hasSmbios, handlerVars, outbox>>

\* Variant: the catch clauses fall through to build:complete.
ReportComplete(b) ==
    /\ GoTo(b, "unwound", "over")
    /\ Send(Message("build:complete", b, "none"))
    /\ UNCHANGED <<kext, outcome, hasSmbios, handlerVars>>

\* The one terminal event of the task: build:complete, or build:error from
\* either of its two catch clauses.
ReportOutcome(b) ==
    /\ GoTo(b, "unwound", "over")
    /\ Send(Message(IF outcome[b] = "complete" THEN "build:complete" ELSE "build:error",
                    b, "none"))
    /\ UNCHANGED <<kext, outcome, hasSmbios, handlerVars>>

-----------------------------------------------------------------------------
HandleStart(b) ==
    \/ AckStart(b)
    \/ LockStart(b)
    \/ RefuseStart(b)
    \/ StartThrows(b)
    \/ SpawnBuild(b)

Build(b) ==
    \/ MakeFolders(b)
    \/ DownloadOpenCore(b)
    \/ KextLoopCancelled(b)
    \/ StartKext(b)
    \/ FinishKext(b)
    \/ KextsReady(b)
    \/ GenerateConfig(b)
    \/ GenerateUsbMap(b)
    \/ PackageZip(b)
    \/ StageThrows(b)
    \/ ReportOutcome(b)

HandleCancel(c) ==
    \/ LockCancel(c)
    \/ AnswerCancel(c)

Service ==
    \/ \E b \in Starts : HandleStart(b) \/ Build(b)
    \/ \E c \in Cancels : HandleCancel(c)

\* A client that posts what it likes and reads every message.
Client ==
    \/ /\ \E b \in Starts, smbios \in BOOLEAN : PostStart(b, smbios)
       /\ UNCHANGED <<kext, outcome, handlerVars, outbox>>
    \/ /\ \E c \in Cancels : PostCancel(c)
       /\ UNCHANGED <<buildVars, buildCts, cancelled, outbox>>
    \/ /\ Dispatched
       /\ UNCHANGED <<buildVars, handlerVars>>

Next == Service \/ Client

\* The thread pool runs every handler and task, downloads end (in success or in
\* an exception), and the web view takes its messages.  Nobody has to post.
ServiceFairness ==
    /\ \A b \in Starts : WF_serviceVars(HandleStart(b)) /\ WF_serviceVars(Build(b))
    /\ \A c \in Cancels : WF_serviceVars(HandleCancel(c))

Spec == /\ ServiceInit
        /\ [][Next]_serviceVars
        /\ ServiceFairness
        /\ WF_serviceVars(Dispatched /\ UNCHANGED <<buildVars, handlerVars>>)
-----------------------------------------------------------------------------
(* Properties.                                                             *)

\* The requests whose token source was installed under the lock.
Accepted(b) == pc[b] \notin {"idle", "posted", "acked"}

\* At most one build runs with a live token, and it is the one build:cancel
\* would reach: an accepted request either has its token source in buildCts or
\* had it cancelled.  Two handlers of build:start and one of build:cancel race
\* for buildCts (HandlersSetup.cs:309-314, 398-402).
OneLiveToken == \A b \in Starts : Accepted(b) /\ b \notin cancelled => buildCts = b

\* The cancellation of b came while the kext loop still had a turn to take.
CancelledInTime(b) ==
    /\ b \in cancelled
    /\ \/ pc[b] \in {"locked", "folders", "opencore"} /\ NumKexts > 0
       \/ pc[b] = "kexts" /\ kext[b] <= NumKexts
       \/ pc[b] = "kext"  /\ kext[b] < NumKexts
       \/ outcome[b] \in {"cancelled", "failed", "refused", "threw"}

\* A build cancelled before the last turn of its kext loop can no longer get
\* past the loop, whatever the stages that swallow exceptions do with the
\* token: it never writes a zip (BuildService.cs:175-224).
CancelSticks ==
    [][\A b \in Starts : CancelledInTime(b) => CancelledInTime(b)']_serviceVars

\* Where a message stands in the life of its request, and the latest message a
\* request has sent once it reached a stage.
Rank(m) == CASE m.event = "build:started"  -> 1
             [] m.event = "build:progress" -> 2
             [] OTHER                      -> 3

Sent(stage) == CASE stage \in {"idle", "posted"}  -> 0
                 [] stage \in {"acked", "locked"} -> 1
                 [] stage = "over"                -> 3
                 [] OTHER                         -> 2

\* The web view sees the messages of one request in the order acknowledgement,
\* progress, terminal event, with nothing after the terminal event: the page
\* cannot tell builds apart, so a late progress message would bring a finished
\* build back on screen (HandlersSetup.cs:303-394).
MessagesInOrder ==
    \A i, j \in 1 .. Len(outbox) :
        /\ i < j
        /\ outbox[i].build = outbox[j].build
        /\ outbox[i].build # NoBuild
        => /\ Rank(outbox[i]) <= Rank(outbox[j])
           /\ Rank(outbox[i]) < 3

\* The handler of every posted build:start and the build it spawned come to an
\* end, cancelled or not, though their sends compete with those of other builds
\* for the web view; with a terminal event, unless reading the payload threw
\* (MessageRouter.cs:61-70 answers that to an invocation already settled).
EveryStartAnswered == \A b \in Starts : pc[b] = "posted" ~> pc[b] = "over"

\* The service implements LatestBuild: its token slot is the one live build.
Abstract == INSTANCE LatestBuild
    WITH Builds   <- Starts,
         NoLive   <- NoBuild,
         accepted <- {b \in Starts : Accepted(b)},
         answered <- {b \in Starts : pc[b] = "over"},
         live     <- buildCts,
         revoked  <- cancelled

ImplementsLatestBuild == Abstract!Spec
=============================================================================
