------------------------- MODULE BuildServiceProofs -------------------------
(***************************************************************************)
(* Theorems about the build service for any number of requests, kexts and  *)
(* messages in flight.  Every invariant is proved of [Next]_serviceVars,   *)
(* so that BuildAppProofs.tla can use the same lemmas for the application, *)
(* whose steps are steps of the service with a more modest client.         *)
(***************************************************************************)
EXTENDS BuildService, SequenceTheorems, TLAPS

-----------------------------------------------------------------------------
(* Type correctness.  The type of kext is inductive only together with the *)
(* fact that the body of the kext loop is entered within the loop's bound. *)

KextInBounds == \A b \in Starts : pc[b] = "kext" => kext[b] <= NumKexts

TypeInv == ServiceTypeOK /\ KextInBounds

\* The initial state has the right types.
LEMMA InitTypeInv == ServiceInit => TypeInv
  BY ServiceAssumption
  DEF ServiceInit, TypeInv, ServiceTypeOK, KextInBounds, Stages, HandlerStages, Outcomes

\* A send keeps the outbox a sequence of messages.
LEMMA SendType ==
    ASSUME NEW m \in Messages, outbox \in Seq(Messages), Send(m)
    PROVE  outbox' \in Seq(Messages)
  BY AppendProperties DEF Send

\* So does a dispatch.
LEMMA DispatchType ==
    ASSUME outbox \in Seq(Messages), Dispatched
    PROVE  outbox' \in Seq(Messages)
  BY HeadTailProperties DEF Dispatched

\* Every message the service builds is one.
LEMMA MessageType ==
    ASSUME NEW b \in Starts \cup {NoBuild},
           NEW event \in {"build:started", "build:progress", "build:cancelled",
                          "build:start", "build:complete", "build:error"},
           NEW stage \in ProgressStages \cup {"none"}
    PROVE  Message(event, b, stage) \in Messages
  BY DEF Message, Messages, TerminalEvents

\* A stage of the build that only advances and reports keeps the types.
LEMMA AdvanceType ==
    ASSUME ServiceTypeOK, NEW b \in Starts, NEW from \in Stages, NEW to \in Stages,
           NEW stage \in ProgressStages, Advance(b, from, to, stage)
    PROVE  ServiceTypeOK'
  <1>1. outbox' \in Seq(Messages)
    BY SendType, MessageType DEF Advance, ServiceTypeOK
  <1>2. QED
    BY <1>1 DEF Advance, GoTo, ServiceTypeOK, handlerVars

\* The steps of the handler of build:start keep the types.
LEMMA HandleStartType ==
    ASSUME ServiceTypeOK, NEW b \in Starts, HandleStart(b)
    PROVE  ServiceTypeOK'
  <1> USE DEF ServiceTypeOK, GoTo, End, handlerVars
  <1>s. {"acked", "locked", "over", "folders"} \subseteq Stages
    BY DEF Stages, HandlerStages, BuildStages
  <1>1. CASE AckStart(b)
    <2>1. outbox' \in Seq(Messages)
      BY <1>1, SendType, MessageType DEF AckStart
    <2>2. QED BY <1>1, <1>s, <2>1 DEF AckStart
  <1>2. CASE LockStart(b)
    BY <1>2, <1>s DEF LockStart
  <1>3. CASE RefuseStart(b)
    <2>1. outbox' \in Seq(Messages)
      BY <1>3, SendType, MessageType DEF RefuseStart
    <2>2. QED BY <1>3, <1>s, <2>1 DEF RefuseStart, Outcomes
  <1>4. CASE StartThrows(b)
    <2>1. outbox' \in Seq(Messages)
      BY <1>4, SendType, MessageType DEF StartThrows
    <2>2. QED BY <1>4, <1>s, <2>1 DEF StartThrows, Outcomes
  <1>5. CASE SpawnBuild(b)
    BY <1>5, <1>s DEF SpawnBuild
  <1>6. QED BY <1>1, <1>2, <1>3, <1>4, <1>5 DEF HandleStart

\* The steps of a build keep the types.
LEMMA BuildType ==
    ASSUME TypeInv, NEW b \in Starts, Build(b)
    PROVE  ServiceTypeOK'
  <1>t. ServiceTypeOK
    BY DEF TypeInv
  <1>s. /\ {"folders", "opencore", "kexts", "kext", "config", "usb", "package"} \subseteq Stages
        /\ {"unwound", "over"} \subseteq Stages
    BY DEF Stages, BuildStages
  <1>p. {"downloading-opencore", "downloading-kexts", "generating-config",
         "generating-usb-map", "complete"} \subseteq ProgressStages
    BY DEF ProgressStages
  <1>1. CASE MakeFolders(b)
    BY <1>1, <1>s, <1>p, <1>t, AdvanceType DEF MakeFolders
  <1>2. CASE DownloadOpenCore(b)
    BY <1>2, <1>s, <1>p, <1>t, AdvanceType DEF DownloadOpenCore
  <1>3. CASE KextLoopCancelled(b)
    BY <1>3, <1>s, <1>t DEF KextLoopCancelled, ServiceTypeOK, GoTo, End, handlerVars, Outcomes
  <1>4. CASE StartKext(b)
    BY <1>4, <1>s, <1>p, <1>t, AdvanceType DEF StartKext
  <1>5. CASE FinishKext(b)
    <2>1. kext[b] + 1 \in 1 .. NumKexts + 1
      BY <1>5, <1>t, ServiceAssumption
      DEF FinishKext, GoTo, TypeInv, KextInBounds, ServiceTypeOK
    <2>2. QED
      BY <1>5, <1>s, <1>t, <2>1 DEF FinishKext, ServiceTypeOK, GoTo, handlerVars
  <1>6. CASE KextsReady(b)
    BY <1>6, <1>s, <1>p, <1>t, AdvanceType DEF KextsReady
  <1>7. CASE GenerateConfig(b)
    BY <1>7, <1>s, <1>p, <1>t, AdvanceType DEF GenerateConfig
  <1>8. CASE GenerateUsbMap(b)
    BY <1>8, <1>s, <1>p, <1>t, AdvanceType DEF GenerateUsbMap
  <1>9. CASE PackageZip(b)
    <2>1. outbox' \in Seq(Messages)
      BY <1>9, <1>t, <1>p, SendType, MessageType DEF PackageZip, ServiceTypeOK
    <2>2. QED
      BY <1>9, <1>s, <1>t, <2>1 DEF PackageZip, ServiceTypeOK, GoTo, End, handlerVars, Outcomes
  <1>10. CASE StageThrows(b)
    BY <1>10, <1>s, <1>t DEF StageThrows, ServiceTypeOK, End, handlerVars, Outcomes
  <1>11. CASE ReportOutcome(b)
    <2>1. outbox' \in Seq(Messages)
      BY <1>11, <1>t, SendType, MessageType DEF ReportOutcome, ServiceTypeOK
    <2>2. QED
      BY <1>11, <1>s, <1>t, <2>1 DEF ReportOutcome, ServiceTypeOK, GoTo, handlerVars
  <1>12. QED
    BY <1>1, <1>2, <1>3, <1>4, <1>5, <1>6, <1>7, <1>8, <1>9, <1>10, <1>11 DEF Build

\* So do those of the handler of build:cancel, and those of the client.
LEMMA HandleCancelType ==
    ASSUME ServiceTypeOK, NEW c \in Cancels, HandleCancel(c)
    PROVE  ServiceTypeOK'
  <1>1. CASE LockCancel(c)
    BY <1>1 DEF LockCancel, ServiceTypeOK, buildVars
  <1>2. CASE AnswerCancel(c)
    <2>1. outbox' \in Seq(Messages)
      BY <1>2, SendType, MessageType DEF AnswerCancel, ServiceTypeOK
    <2>2. QED
      BY <1>2, <2>1 DEF AnswerCancel, ServiceTypeOK, buildVars
  <1>3. QED BY <1>1, <1>2 DEF HandleCancel

LEMMA ClientType ==
    ASSUME ServiceTypeOK, Client
    PROVE  ServiceTypeOK'
  <1>s. "posted" \in Stages
    BY DEF Stages, HandlerStages
  <1>1. CASE \E b \in Starts, smbios \in BOOLEAN :
               PostStart(b, smbios) /\ UNCHANGED <<kext, outcome, handlerVars, outbox>>
    BY <1>1, <1>s DEF PostStart, GoTo, ServiceTypeOK, handlerVars
  <1>2. CASE \E c \in Cancels :
               PostCancel(c) /\ UNCHANGED <<buildVars, buildCts, cancelled, outbox>>
    BY <1>2 DEF PostCancel, ServiceTypeOK, buildVars
  <1>3. CASE Dispatched /\ UNCHANGED <<buildVars, handlerVars>>
    BY <1>3, DispatchType DEF ServiceTypeOK, buildVars, handlerVars
  <1>4. QED BY <1>1, <1>2, <1>3 DEF Client

\* The kext loop's body is entered only within the bound.
LEMMA KextInBoundsStep ==
    ASSUME TypeInv, [Next]_serviceVars
    PROVE  KextInBounds'
  <1> SUFFICES ASSUME NEW d \in Starts, pc'[d] = "kext"
               PROVE  kext'[d] <= NumKexts'
    BY DEF KextInBounds
  <1> USE DEF TypeInv, ServiceTypeOK, KextInBounds, GoTo, handlerVars, buildVars
  <1>1. ASSUME NEW b \in Starts, HandleStart(b)
        PROVE  kext'[d] <= NumKexts
    BY <1>1 DEF HandleStart, AckStart, LockStart, RefuseStart, StartThrows, SpawnBuild
  <1>2. ASSUME NEW b \in Starts, Build(b)
        PROVE  kext'[d] <= NumKexts
    BY <1>2 DEF Build, MakeFolders, DownloadOpenCore, KextLoopCancelled, StartKext, FinishKext,
                KextsReady, GenerateConfig, GenerateUsbMap, PackageZip, StageThrows,
                ReportOutcome, Advance
  <1>3. ASSUME NEW c \in Cancels, HandleCancel(c)
        PROVE  kext'[d] <= NumKexts
    BY <1>3 DEF HandleCancel, LockCancel, AnswerCancel
  <1>4. CASE Client
    BY <1>4 DEF Client, PostStart, PostCancel
  <1>5. CASE UNCHANGED serviceVars
    BY <1>5 DEF serviceVars
  <1>6. QED BY <1>1, <1>2, <1>3, <1>4, <1>5 DEF Next, Service

LEMMA TypeInvStep ==
    ASSUME TypeInv, [Next]_serviceVars
    PROVE  TypeInv'
  <1>1. ServiceTypeOK'
    <2>1. CASE \E b \in Starts : HandleStart(b)
      BY <2>1, HandleStartType DEF TypeInv
    <2>2. CASE \E b \in Starts : Build(b)
      BY <2>2, BuildType
    <2>3. CASE \E c \in Cancels : HandleCancel(c)
      BY <2>3, HandleCancelType DEF TypeInv
    <2>4. CASE Client
      BY <2>4, ClientType DEF TypeInv
    <2>5. CASE UNCHANGED serviceVars
      BY <2>5 DEF TypeInv, ServiceTypeOK, serviceVars, buildVars, handlerVars
    <2>6. QED BY <2>1, <2>2, <2>3, <2>4, <2>5 DEF Next, Service
  <1>2. QED BY <1>1, KextInBoundsStep DEF TypeInv

\* Every variable of the service keeps to its type; no build enters the body of
\* the kext loop with its counter past the last kext (BuildService.cs:175-180).
THEOREM ServiceTypeCorrect == Spec => []ServiceTypeOK
  <1>1. Spec => []TypeInv
    BY InitTypeInv, TypeInvStep, PTL DEF Spec
  <1>2. TypeInv => ServiceTypeOK
    BY DEF TypeInv
  <1>3. QED BY <1>1, <1>2, PTL

-----------------------------------------------------------------------------
(* The token of buildCts.                                                  *)

LEMMA InitOneLiveToken == ServiceInit => OneLiveToken
  BY DEF ServiceInit, OneLiveToken, Accepted

\* Only the two locked sections touch the tokens, and only LockStart accepts.
LEMMA OneLiveTokenStep ==
    ASSUME ServiceTypeOK, OneLiveToken, [Next]_serviceVars
    PROVE  OneLiveToken'
  <1> SUFFICES ASSUME NEW d \in Starts, Accepted(d)', d \notin cancelled'
               PROVE  buildCts' = d
    BY DEF OneLiveToken
  <1> USE DEF OneLiveToken, Accepted, ServiceTypeOK, GoTo, handlerVars, buildVars
  <1>1. ASSUME NEW b \in Starts, HandleStart(b)
        PROVE  buildCts' = d
    <2>1. CASE LockStart(b)
      BY <2>1, ServiceAssumption DEF LockStart
    <2>2. CASE AckStart(b) \/ RefuseStart(b) \/ StartThrows(b) \/ SpawnBuild(b)
      BY <2>2 DEF AckStart, RefuseStart, StartThrows, SpawnBuild
    <2>3. QED BY <1>1, <2>1, <2>2 DEF HandleStart
  <1>2. ASSUME NEW b \in Starts, Build(b)
        PROVE  buildCts' = d
    BY <1>2 DEF Build, MakeFolders, DownloadOpenCore, KextLoopCancelled, StartKext, FinishKext,
                KextsReady, GenerateConfig, GenerateUsbMap, PackageZip, StageThrows,
                ReportOutcome, Advance
  <1>3. ASSUME NEW c \in Cancels, HandleCancel(c)
        PROVE  buildCts' = d
    BY <1>3, ServiceAssumption DEF HandleCancel, LockCancel, AnswerCancel
  <1>4. CASE Client
    BY <1>4 DEF Client, PostStart, PostCancel
  <1>5. CASE UNCHANGED serviceVars
    BY <1>5 DEF serviceVars
  <1>6. QED BY <1>1, <1>2, <1>3, <1>4, <1>5 DEF Next, Service

\* At most one accepted build has a live token, and buildCts holds it, whatever
\* number of build:start and build:cancel handlers race (HandlersSetup.cs:309-314).
THEOREM OneLiveTokenHolds == Spec => []OneLiveToken
  <1>1. Spec => [](TypeInv /\ OneLiveToken)
    <2>1. ServiceInit => TypeInv /\ OneLiveToken
      BY InitTypeInv, InitOneLiveToken
    <2>2. TypeInv => ServiceTypeOK
      BY DEF TypeInv
    <2>3. TypeInv /\ OneLiveToken /\ [Next]_serviceVars => (TypeInv /\ OneLiveToken)'
      BY <2>2, TypeInvStep, OneLiveTokenStep
    <2>4. QED BY <2>1, <2>3, PTL DEF Spec
  <1>2. QED BY <1>1, PTL

-----------------------------------------------------------------------------
(* Cancellation.                                                           *)

\* The loop counter stands at its start until the loop, and an outcome is
\* settled only once the build is past its stages.
KextStarts == \A b \in Starts : pc[b] \in HandlerStages \cup {"folders", "opencore"}
                                    => kext[b] = 1

OutcomeIsLast == \A b \in Starts : outcome[b] # "pending" => pc[b] \in {"unwound", "over"}

BuildInv == TypeInv /\ KextStarts /\ OutcomeIsLast

LEMMA InitBuildInv == ServiceInit => BuildInv
  BY InitTypeInv DEF ServiceInit, BuildInv, KextStarts, OutcomeIsLast

LEMMA BuildInvStep ==
    ASSUME BuildInv, [Next]_serviceVars
    PROVE  BuildInv'
  <1>1. TypeInv'
    BY TypeInvStep DEF BuildInv
  <1>2. (KextStarts /\ OutcomeIsLast)'
    <2> SUFFICES ASSUME NEW d \in Starts
                 PROVE  /\ pc'[d] \in HandlerStages \cup {"folders", "opencore"} => kext'[d] = 1
                        /\ outcome'[d] # "pending" => pc'[d] \in {"unwound", "over"}
      BY DEF KextStarts, OutcomeIsLast
    <2> DEFINE Goal == /\ pc'[d] \in HandlerStages \cup {"folders", "opencore"} => kext'[d] = 1
                       /\ outcome'[d] # "pending" => pc'[d] \in {"unwound", "over"}
    <2> USE DEF BuildInv, TypeInv, ServiceTypeOK, KextStarts, OutcomeIsLast, HandlerStages,
                GoTo, End, handlerVars, buildVars
    <2>1. ASSUME NEW b \in Starts, HandleStart(b)
          PROVE  Goal
      BY <2>1 DEF HandleStart, AckStart, LockStart, RefuseStart, StartThrows, SpawnBuild
    <2>2. ASSUME NEW b \in Starts, Build(b)
          PROVE  Goal
      BY <2>2 DEF Build, MakeFolders, DownloadOpenCore, KextLoopCancelled, StartKext, FinishKext,
                  KextsReady, GenerateConfig, GenerateUsbMap, PackageZip, StageThrows,
                  ReportOutcome, Advance
    <2>3. ASSUME NEW c \in Cancels, HandleCancel(c)
          PROVE  Goal
      BY <2>3 DEF HandleCancel, LockCancel, AnswerCancel
    <2>4. CASE Client
      BY <2>4 DEF Client, PostStart, PostCancel
    <2>5. CASE UNCHANGED serviceVars
      BY <2>5 DEF serviceVars
    <2>6. QED BY <2>1, <2>2, <2>3, <2>4, <2>5 DEF Next, Service
  <1>3. QED BY <1>1, <1>2 DEF BuildInv

\* One step cannot bring back a build that was cancelled in time.
LEMMA CancelSticksStep ==
    ASSUME BuildInv, [Next]_serviceVars, NEW d \in Starts, CancelledInTime(d)
    PROVE  CancelledInTime(d)'
  <1> USE ServiceAssumption
      DEF BuildInv, TypeInv, ServiceTypeOK, KextStarts, OutcomeIsLast, HandlerStages,
          CancelledInTime, GoTo, End, handlerVars, buildVars
  <1>1. ASSUME NEW b \in Starts, HandleStart(b)
        PROVE  CancelledInTime(d)'
    BY <1>1 DEF HandleStart, AckStart, LockStart, RefuseStart, StartThrows, SpawnBuild
  <1>2. ASSUME NEW b \in Starts, Build(b)
        PROVE  CancelledInTime(d)'
    <2>1. CASE b # d
      BY <1>2, <2>1 DEF Build, MakeFolders, DownloadOpenCore, KextLoopCancelled, StartKext,
                        FinishKext, KextsReady, GenerateConfig, GenerateUsbMap, PackageZip,
                        StageThrows, ReportOutcome, Advance
    <2>2. CASE b = d /\ (KextLoopCancelled(b) \/ StartKext(b) \/ FinishKext(b) \/ KextsReady(b))
      BY <2>2 DEF KextLoopCancelled, StartKext, FinishKext, KextsReady, Advance
    <2>3. CASE b = d /\ (MakeFolders(b) \/ DownloadOpenCore(b))
      BY <2>3 DEF MakeFolders, DownloadOpenCore, Advance
    <2>4. CASE b = d /\ ~(KextLoopCancelled(b) \/ StartKext(b) \/ FinishKext(b) \/ KextsReady(b))
                    /\ ~(MakeFolders(b) \/ DownloadOpenCore(b))
      BY <1>2, <2>4 DEF Build, GenerateConfig, GenerateUsbMap, PackageZip, StageThrows,
                        ReportOutcome, Advance
    <2>5. QED BY <2>1, <2>2, <2>3, <2>4
  <1>3. ASSUME NEW c \in Cancels, HandleCancel(c)
        PROVE  CancelledInTime(d)'
    BY <1>3 DEF HandleCancel, LockCancel, AnswerCancel
  <1>4. CASE Client
    BY <1>4 DEF Client, PostStart, PostCancel
  <1>5. CASE UNCHANGED serviceVars
    BY <1>5 DEF serviceVars
  <1>6. QED BY <1>1, <1>2, <1>3, <1>4, <1>5 DEF Next, Service

\* A build cancelled before the last turn of its kext loop never packages a zip
\* (BuildService.cs:175-224), for any number of kexts and of other builds.
THEOREM CancelSticksHolds == Spec => CancelSticks
  <1>1. Spec => []BuildInv
    BY InitBuildInv, BuildInvStep, PTL DEF Spec
  <1>2. BuildInv /\ [Next]_serviceVars
          => [\A b \in Starts : CancelledInTime(b) => CancelledInTime(b)']_serviceVars
    BY CancelSticksStep
  <1>3. QED BY <1>1, <1>2, PTL DEF Spec, CancelSticks

-----------------------------------------------------------------------------
(* The order of messages.                                                  *)

\* A request has sent no message that its stage does not allow for yet.
MessagesFollowStages ==
    \A i \in 1 .. Len(outbox) :
        outbox[i].build # NoBuild => Rank(outbox[i]) <= Sent(pc[outbox[i].build])

OrderInv == TypeInv /\ MessagesFollowStages /\ MessagesInOrder

\* Ranks and stages are numbers from 0 to 3.
LEMMA RankSent == /\ \A m : Rank(m) \in 1 .. 3
                  /\ \A s : Sent(s) \in 0 .. 3
  BY DEF Rank, Sent

\* The rank of the messages a request sends.
LEMMA RankOfMessage ==
    ASSUME NEW b, NEW stage
    PROVE  /\ Rank(Message("build:started", b, stage)) = 1
           /\ Rank(Message("build:progress", b, stage)) = 2
           /\ Rank(Message("build:error", b, stage)) = 3
           /\ Rank(Message("build:complete", b, stage)) = 3
           /\ Rank(Message("build:start", b, stage)) = 3
  BY DEF Rank, Message

\* A step of a request that sends nothing, as far as the order is concerned.
Quiet == /\ outbox' = outbox
         /\ \A b \in Starts : Sent(pc[b]) <= Sent(pc'[b])

\* A step that sends m: m comes after everything its request sent before.
Speaks(m) == /\ outbox' = Append(outbox, m)
             /\ \A b \in Starts : Sent(pc[b]) <= Sent(pc'[b])
             /\ m.build # NoBuild => /\ m.build \in Starts
                                     /\ Sent(pc[m.build]) < 3
                                     /\ Sent(pc[m.build]) <= Rank(m)
                                     /\ Rank(m) <= Sent(pc'[m.build])

\* Moving one request along keeps Sent from falling for any.
LEMMA MoveSent ==
    ASSUME ServiceTypeOK, NEW b \in Starts, NEW from, NEW to, GoTo(b, from, to),
           Sent(from) <= Sent(to)
    PROVE  /\ pc[b] = from /\ pc'[b] = to
           /\ \A d \in Starts : Sent(pc[d]) <= Sent(pc'[d])
  <1>1. pc[b] = from /\ pc'[b] = to
    BY DEF GoTo, ServiceTypeOK
  <1>2. ASSUME NEW d \in Starts
        PROVE  Sent(pc[d]) <= Sent(pc'[d])
    <2>1. CASE d = b
      BY <2>1, <1>1
    <2>2. CASE d # b
      <3>1. pc'[d] = pc[d]
        BY <2>2 DEF GoTo, ServiceTypeOK
      <3>2. Sent(pc[d]) \in 0 .. 3
        BY RankSent
      <3>3. QED BY <3>1, <3>2
    <2>3. QED BY <2>1, <2>2
  <1>3. QED BY <1>1, <1>2

\* A request that sends m as it moves along speaks.
LEMMA MoveSpeaks ==
    ASSUME ServiceTypeOK, NEW b \in Starts, NEW from, NEW to, GoTo(b, from, to),
           NEW m, m.build = b, Send(m),
           Sent(from) < 3, Sent(from) <= Rank(m), Rank(m) <= Sent(to)
    PROVE  Speaks(m)
  <1>1. Sent(from) \in 0 .. 3 /\ Sent(to) \in 0 .. 3 /\ Rank(m) \in 1 .. 3
    BY RankSent
  <1>2. Sent(from) <= Sent(to)
    BY <1>1
  <1>3. /\ pc[b] = from /\ pc'[b] = to
        /\ \A d \in Starts : Sent(pc[d]) <= Sent(pc'[d])
    BY <1>2, MoveSent
  <1>4. QED BY <1>3 DEF Speaks, Send

\* Every step is quiet, sends one message or dispatches one.
LEMMA AdvanceSpeaks ==
    ASSUME ServiceTypeOK, NEW b \in Starts, NEW from \in BuildStages, NEW to \in BuildStages,
           NEW stage \in ProgressStages, Advance(b, from, to, stage)
    PROVE  \E m \in Messages : Speaks(m)
  <1> DEFINE m == Message("build:progress", b, stage)
  <1>1. m \in Messages
    BY MessageType
  <1>2. m.build = b
    BY DEF Message
  <1>3. Rank(m) = 2
    BY RankOfMessage
  <1>4. Sent(from) = 2 /\ Sent(to) = 2
    BY DEF Sent, BuildStages
  <1>5. GoTo(b, from, to) /\ Send(m)
    BY DEF Advance
  <1> HIDE DEF m
  <1>6. Speaks(m)
    BY <1>2, <1>3, <1>4, <1>5, MoveSpeaks
  <1>7. QED BY <1>1, <1>6

LEMMA HandleStartSpeaks ==
    ASSUME ServiceTypeOK, NEW b \in Starts, HandleStart(b)
    PROVE  Quiet \/ \E m \in Messages : Speaks(m)
  <1>s. /\ Sent("posted") = 0 /\ Sent("acked") = 1 /\ Sent("locked") = 1
        /\ Sent("folders") = 2 /\ Sent("over") = 3
    BY DEF Sent
  <1>m. ASSUME NEW event \in {"build:started", "build:error", "build:start"}
        PROVE  /\ Message(event, b, "none") \in Messages
               /\ Message(event, b, "none").build = b
               /\ Rank(Message(event, b, "none")) = IF event = "build:started" THEN 1 ELSE 3
    BY MessageType, RankOfMessage DEF Message
  <1>1. CASE AckStart(b)
    <2> DEFINE m == Message("build:started", b, "none")
    <2>1. m \in Messages /\ m.build = b /\ Rank(m) = 1
      BY <1>m
    <2>2. GoTo(b, "posted", "acked") /\ Send(m)
      BY <1>1 DEF AckStart
    <2> HIDE DEF m
    <2>3. Speaks(m)
      BY <1>s, <2>1, <2>2, MoveSpeaks
    <2>4. QED BY <2>1, <2>3
  <1>2. CASE LockStart(b)
    BY <1>2, <1>s, MoveSent DEF LockStart, Quiet
  <1>3. CASE RefuseStart(b)
    <2> DEFINE m == Message("build:error", b, "none")
    <2>1. m \in Messages /\ m.build = b /\ Rank(m) = 3
      BY <1>m
    <2>2. GoTo(b, "locked", "over") /\ Send(m)
      BY <1>3 DEF RefuseStart
    <2> HIDE DEF m
    <2>3. Speaks(m)
      BY <1>s, <2>1, <2>2, MoveSpeaks
    <2>4. QED BY <2>1, <2>3
  <1>4. CASE StartThrows(b)
    <2> DEFINE m == Message("build:start", b, "none")
    <2>1. m \in Messages /\ m.build = b /\ Rank(m) = 3
      BY <1>m
    <2>2. GoTo(b, "locked", "over") /\ Send(m)
      BY <1>4 DEF StartThrows
    <2> HIDE DEF m
    <2>3. Speaks(m)
      BY <1>s, <2>1, <2>2, MoveSpeaks
    <2>4. QED BY <2>1, <2>3
  <1>5. CASE SpawnBuild(b)
    BY <1>5, <1>s, MoveSent DEF SpawnBuild, Quiet
  <1>6. QED BY <1>1, <1>2, <1>3, <1>4, <1>5 DEF HandleStart

LEMMA BuildSpeaks ==
    ASSUME ServiceTypeOK, NEW b \in Starts, Build(b)
    PROVE  Quiet \/ \E m \in Messages : Speaks(m)
  <1>s. /\ \A s \in BuildStages \cup {"unwound"} : Sent(s) = 2
        /\ Sent("over") = 3
    BY DEF Sent, BuildStages
  <1>b. BuildStages = {"folders", "opencore", "kexts", "kext", "config", "usb", "package"}
    BY DEF BuildStages
  <1>p. ProgressStages = {"downloading-opencore", "downloading-kexts", "generating-config",
                          "generating-usb-map", "complete"}
    BY DEF ProgressStages
  <1>1. CASE MakeFolders(b) \/ DownloadOpenCore(b) \/ StartKext(b) \/ KextsReady(b)
                \/ GenerateConfig(b) \/ GenerateUsbMap(b)
    BY <1>1, <1>b, <1>p, AdvanceSpeaks
    DEF MakeFolders, DownloadOpenCore, StartKext, KextsReady, GenerateConfig, GenerateUsbMap
  <1>2. CASE KextLoopCancelled(b)
    BY <1>2, <1>s, <1>b, MoveSent DEF KextLoopCancelled, Quiet
  <1>3. CASE FinishKext(b)
    BY <1>3, <1>s, <1>b, MoveSent DEF FinishKext, Quiet
  <1>4. CASE StageThrows(b)
    <2>1. GoTo(b, pc[b], "unwound") /\ outbox' = outbox
      BY <1>4 DEF StageThrows, GoTo
    <2>2. Sent(pc[b]) = 2 /\ Sent("unwound") = 2
      BY <1>4, <1>s, <1>b DEF StageThrows
    <2>3. QED BY <2>1, <2>2, MoveSent DEF Quiet
  <1>5. CASE PackageZip(b)
    <2> DEFINE m == Message("build:progress", b, "complete")
    <2>1. m \in Messages
      BY <1>p, MessageType
    <2>2. m.build = b
      BY DEF Message
    <2>3. Rank(m) = 2
      BY RankOfMessage
    <2>4. GoTo(b, "package", "unwound") /\ Send(m)
      BY <1>5 DEF PackageZip
    <2>5. Sent("package") = 2 /\ Sent("unwound") = 2
      BY <1>s, <1>b
    <2> HIDE DEF m
    <2>6. Speaks(m)
      BY <2>2, <2>3, <2>4, <2>5, MoveSpeaks
    <2>7. QED BY <2>1, <2>6
  <1>6. CASE ReportOutcome(b)
    <2> DEFINE event == IF outcome[b] = "complete" THEN "build:complete" ELSE "build:error"
               m == Message(event, b, "none")
    <2>1. event \in {"build:complete", "build:error"}
      OBVIOUS
    <2>2. GoTo(b, "unwound", "over") /\ Send(m)
      BY <1>6 DEF ReportOutcome
    <2> HIDE DEF event
    <2>3. m \in Messages /\ m.build = b
      BY <2>1, MessageType DEF Message
    <2>4. Rank(m) = 3
      BY <2>1, RankOfMessage
    <2>5. Sent("unwound") = 2
      BY <1>s
    <2> HIDE DEF m
    <2>6. Speaks(m)
      BY <1>s, <2>2, <2>3, <2>4, <2>5, MoveSpeaks
    <2>7. QED BY <2>3, <2>6
  <1>7. QED BY <1>1, <1>2, <1>3, <1>4, <1>5, <1>6 DEF Build

LEMMA StepSpeaks ==
    ASSUME ServiceTypeOK, [Next]_serviceVars
    PROVE  \/ Quiet
           \/ \E m \in Messages : Speaks(m)
           \/ Dispatched /\ pc' = pc
  <1>n. ASSUME pc' = pc
        PROVE  \A b \in Starts : Sent(pc[b]) <= Sent(pc'[b])
    <2> SUFFICES ASSUME NEW b \in Starts
                 PROVE  Sent(pc[b]) <= Sent(pc'[b])
      OBVIOUS
    <2>1. Sent(pc[b]) \in 0 .. 3
      BY RankSent
    <2>2. QED BY <1>n, <2>1
  <1>1. CASE \E b \in Starts : HandleStart(b)
    BY <1>1, HandleStartSpeaks
  <1>2. CASE \E b \in Starts : Build(b)
    BY <1>2, BuildSpeaks
  <1>3. ASSUME NEW c \in Cancels, HandleCancel(c)
        PROVE  Quiet \/ \E m \in Messages : Speaks(m)
    <2>1. CASE LockCancel(c)
      BY <2>1, <1>n DEF LockCancel, Quiet, buildVars
    <2>2. CASE AnswerCancel(c)
      <3> DEFINE m == Message("build:cancelled", NoBuild, "none")
      <3>1. m \in Messages /\ m.build = NoBuild
        BY MessageType DEF Message
      <3>2. Send(m) /\ pc' = pc
        BY <2>2 DEF AnswerCancel, buildVars
      <3> HIDE DEF m
      <3>3. Speaks(m)
        BY <3>1, <3>2, <1>n DEF Speaks, Send
      <3>4. QED BY <3>1, <3>3
    <2>3. QED BY <1>3, <2>1, <2>2 DEF HandleCancel
  <1>4. CASE Client
    <2>1. ASSUME NEW b \in Starts, NEW smbios \in BOOLEAN, PostStart(b, smbios), outbox' = outbox
          PROVE  Quiet
      <3>1. Sent("idle") = 0 /\ Sent("posted") = 0
        BY DEF Sent
      <3>2. QED BY <2>1, <3>1, MoveSent DEF PostStart, Quiet
    <2>2. CASE \E c \in Cancels :
                 PostCancel(c) /\ UNCHANGED <<buildVars, buildCts, cancelled, outbox>>
      BY <2>2, <1>n DEF Quiet, buildVars
    <2>3. CASE Dispatched /\ UNCHANGED <<buildVars, handlerVars>>
      BY <2>3 DEF buildVars
    <2>4. QED BY <1>4, <2>1, <2>2, <2>3 DEF Client
  <1>5. CASE UNCHANGED serviceVars
    BY <1>5, <1>n DEF serviceVars, buildVars, Quiet
  <1>6. QED BY <1>1, <1>2, <1>3, <1>4, <1>5 DEF Next, Service

LEMMA OrderInvStep ==
    ASSUME OrderInv, [Next]_serviceVars
    PROVE  OrderInv'
  <1>t. TypeInv /\ ServiceTypeOK /\ MessagesFollowStages /\ MessagesInOrder
    BY DEF OrderInv, TypeInv
  <1>o. /\ outbox \in Seq(Messages) /\ pc \in [Starts -> Stages]
        /\ \A i \in 1 .. Len(outbox) : outbox[i] \in Messages
        /\ Len(outbox) \in Nat
    BY <1>t DEF ServiceTypeOK
  <1>b. \A m \in Messages : m.build \in Starts \cup {NoBuild}
    BY DEF Messages
  <1>r. /\ \A m : Rank(m) \in 1 .. 3
        /\ \A s : Sent(s) \in 0 .. 3
    BY RankSent
  <1>k. ASSUME \A b \in Starts : Sent(pc[b]) <= Sent(pc'[b]),
               NEW i \in 1 .. Len(outbox), outbox[i].build # NoBuild
        PROVE  Rank(outbox[i]) <= Sent(pc'[outbox[i].build])
    <2>1. outbox[i].build \in Starts
      BY <1>k, <1>o, <1>b
    <2>2. Rank(outbox[i]) <= Sent(pc[outbox[i].build])
      BY <1>k, <1>t DEF MessagesFollowStages
    <2>3. Sent(pc[outbox[i].build]) <= Sent(pc'[outbox[i].build])
      BY <1>k, <2>1
    <2>4. /\ Rank(outbox[i]) \in 1 .. 3
          /\ Sent(pc[outbox[i].build]) \in 0 .. 3
          /\ Sent(pc'[outbox[i].build]) \in 0 .. 3
      BY <1>r
    <2>5. QED BY <2>2, <2>3, <2>4
  <1>1. CASE Quiet
    <2>1. MessagesFollowStages'
      BY <1>1, <1>k DEF Quiet, MessagesFollowStages
    <2>2. MessagesInOrder'
      BY <1>1, <1>t DEF Quiet, MessagesInOrder
    <2>3. QED BY <1>t, <2>1, <2>2, TypeInvStep DEF OrderInv
  <1>2. ASSUME NEW m \in Messages, Speaks(m)
        PROVE  OrderInv'
    <2>1. /\ Len(outbox') = Len(outbox) + 1
          /\ \A i \in 1 .. Len(outbox) : outbox'[i] = outbox[i]
          /\ outbox'[Len(outbox) + 1] = m
      BY <1>2, <1>o, AppendProperties DEF Speaks
    <2>2. \A b \in Starts : Sent(pc[b]) <= Sent(pc'[b])
      BY <1>2 DEF Speaks
    <2>3. m.build # NoBuild => /\ Sent(pc[m.build]) < 3
                               /\ Sent(pc[m.build]) <= Rank(m)
                               /\ Rank(m) <= Sent(pc'[m.build])
      BY <1>2 DEF Speaks
    <2>4. MessagesFollowStages'
      <3> SUFFICES ASSUME NEW i \in 1 .. Len(outbox'), outbox'[i].build # NoBuild
                   PROVE  Rank(outbox'[i]) <= Sent(pc'[outbox'[i].build])
        BY DEF MessagesFollowStages, Rank, Sent
      <3>1. CASE i \in 1 .. Len(outbox)
        BY <3>1, <2>1, <2>2, <1>k
      <3>2. CASE i = Len(outbox) + 1
        BY <3>2, <2>1, <2>3
      <3>3. QED BY <3>1, <3>2, <2>1, <1>o
    <2>5. MessagesInOrder'
      <3> SUFFICES ASSUME NEW i \in 1 .. Len(outbox'), NEW j \in 1 .. Len(outbox'), i < j,
                          outbox'[i].build = outbox'[j].build, outbox'[i].build # NoBuild
                   PROVE  /\ Rank(outbox'[i]) <= Rank(outbox'[j])
                          /\ Rank(outbox'[i]) < 3
        BY DEF MessagesInOrder, Rank
      <3>1. CASE j \in 1 .. Len(outbox)
        <4>1. i \in 1 .. Len(outbox)
          BY <3>1, <2>1, <1>o
        <4>2. QED BY <3>1, <4>1, <2>1, <1>t DEF MessagesInOrder
      <3>2. CASE j = Len(outbox) + 1
        <4>1. i \in 1 .. Len(outbox) /\ outbox'[i] = outbox[i] /\ outbox'[j] = m
          BY <3>2, <2>1, <1>o
        <4>2. outbox[i].build = m.build /\ m.build # NoBuild
          BY <4>1
        <4>3. Rank(outbox[i]) <= Sent(pc[m.build])
          BY <4>1, <4>2, <1>t DEF MessagesFollowStages
        <4>4. Rank(outbox[i]) \in 1 .. 3 /\ Rank(m) \in 1 .. 3 /\ Sent(pc[m.build]) \in 0 .. 3
          BY <1>r
        <4>5. QED BY <4>1, <4>2, <4>3, <4>4, <2>3
      <3>3. QED BY <3>1, <3>2, <2>1, <1>o
    <2>6. QED BY <1>t, <2>4, <2>5, TypeInvStep DEF OrderInv
  <1>3. CASE Dispatched /\ pc' = pc
    <2>1. /\ Len(outbox') = Len(outbox) - 1
          /\ \A i \in 1 .. Len(outbox) - 1 : outbox'[i] = outbox[i + 1]
      BY <1>3, <1>o, HeadTailProperties DEF Dispatched
    <2>2. MessagesFollowStages'
      <3> SUFFICES ASSUME NEW i \in 1 .. Len(outbox'), outbox'[i].build # NoBuild
                   PROVE  Rank(outbox'[i]) <= Sent(pc'[outbox'[i].build])
        BY DEF MessagesFollowStages, Rank, Sent
      <3>1. i + 1 \in 1 .. Len(outbox) /\ outbox'[i] = outbox[i + 1]
        BY <2>1, <1>o
      <3>2. QED BY <3>1, <1>3, <1>t DEF MessagesFollowStages
    <2>3. MessagesInOrder'
      <3> SUFFICES ASSUME NEW i \in 1 .. Len(outbox'), NEW j \in 1 .. Len(outbox'), i < j,
                          outbox'[i].build = outbox'[j].build, outbox'[i].build # NoBuild
                   PROVE  /\ Rank(outbox'[i]) <= Rank(outbox'[j])
                          /\ Rank(outbox'[i]) < 3
        BY DEF MessagesInOrder, Rank
      <3>1. /\ i + 1 \in 1 .. Len(outbox) /\ outbox'[i] = outbox[i + 1]
            /\ j + 1 \in 1 .. Len(outbox) /\ outbox'[j] = outbox[j + 1]
            /\ i + 1 < j + 1
        BY <2>1, <1>o
      <3>2. QED BY <3>1, <1>t DEF MessagesInOrder
    <2>4. QED BY <1>t, <2>2, <2>3, TypeInvStep DEF OrderInv
  <1>4. QED BY <1>1, <1>2, <1>3, <1>t, StepSpeaks

\* The messages of one request reach the web view in the order acknowledgement,
\* progress, terminal event, with nothing after the terminal event, whatever
\* other requests send in between (HandlersSetup.cs:303-394).
THEOREM MessagesInOrderHolds == Spec => []MessagesInOrder
  <1>1. ServiceInit => OrderInv
    BY InitTypeInv DEF ServiceInit, OrderInv, MessagesFollowStages, MessagesInOrder
  <1>2. Spec => []OrderInv
    BY <1>1, OrderInvStep, PTL DEF Spec
  <1>3. OrderInv => MessagesInOrder
    BY DEF OrderInv
  <1>4. QED BY <1>2, <1>3, PTL
-----------------------------------------------------------------------------
(* The service implements LatestBuild, as far as safety goes.              *)

AcceptedSet == {b \in Starts : Accepted(b)}
AnsweredSet == {b \in Starts : pc[b] = "over"}

\* A step that moves one request between two stages on the same side of the lock,
\* and touches no token, is no step of LatestBuild.
LEMMA StutterStep ==
    ASSUME ServiceTypeOK, NEW b \in Starts, NEW from \in Stages, NEW to \in Stages \ {"over"},
           from # "over", GoTo(b, from, to),
           from \in {"idle", "posted", "acked"} <=> to \in {"idle", "posted", "acked"},
           UNCHANGED <<buildCts, cancelled>>
    PROVE  UNCHANGED Abstract!vars
  <1>1. AcceptedSet' = AcceptedSet
    BY DEF AcceptedSet, Accepted, GoTo, ServiceTypeOK
  <1>2. AnsweredSet' = AnsweredSet
    BY DEF AnsweredSet, GoTo, ServiceTypeOK
  <1>3. QED BY <1>1, <1>2 DEF Abstract!vars, AcceptedSet, AnsweredSet

\* A step that ends a request answers its build.
LEMMA AnswerStep ==
    ASSUME ServiceTypeOK, NEW b \in Starts, NEW from \in Stages, GoTo(b, from, "over"),
           from \notin {"idle", "posted", "acked", "over"}, UNCHANGED <<buildCts, cancelled>>
    PROVE  Abstract!Answer(b)
  <1>1. AcceptedSet' = AcceptedSet /\ b \in AcceptedSet
    BY DEF AcceptedSet, Accepted, GoTo, ServiceTypeOK
  <1>2. AnsweredSet' = AnsweredSet \cup {b} /\ b \notin AnsweredSet
    BY DEF AnsweredSet, GoTo, ServiceTypeOK
  <1>3. QED BY <1>1, <1>2 DEF Abstract!Answer, AcceptedSet, AnsweredSet

\* The locked section of build:start accepts its build.
LEMMA AcceptStep ==
    ASSUME ServiceTypeOK, NEW b \in Starts, LockStart(b)
    PROVE  Abstract!Accept(b)
  <1>1. AcceptedSet' = AcceptedSet \cup {b} /\ b \notin AcceptedSet
    BY DEF LockStart, AcceptedSet, Accepted, GoTo, ServiceTypeOK
  <1>2. AnsweredSet' = AnsweredSet
    BY DEF LockStart, AnsweredSet, GoTo, ServiceTypeOK
  <1>3. QED
    BY <1>1, <1>2 DEF LockStart, Abstract!Accept, Abstract!Revoked, AcceptedSet, AnsweredSet

\* That of build:cancel revokes the live build, if there is one.
LEMMA RevokeStep ==
    ASSUME NEW c \in Cancels, LockCancel(c)
    PROVE  Abstract!Revoke \/ UNCHANGED Abstract!vars
  <1>1. AcceptedSet' = AcceptedSet /\ AnsweredSet' = AnsweredSet
    BY DEF LockCancel, buildVars, AcceptedSet, AnsweredSet, Accepted
  <1>2. CASE buildCts = NoBuild
    BY <1>1, <1>2 DEF LockCancel, Abstract!vars, AcceptedSet, AnsweredSet
  <1>3. CASE buildCts # NoBuild
    BY <1>1, <1>3 DEF LockCancel, Abstract!Revoke, Abstract!Revoked, AcceptedSet, AnsweredSet
  <1>4. QED BY <1>2, <1>3

LEMMA ImplementsStep ==
    ASSUME ServiceTypeOK, [Next]_serviceVars
    PROVE  [Abstract!Next]_Abstract!vars
  <1>s. Stages = {"idle", "posted", "acked", "locked", "folders", "opencore", "kexts", "kext",
                  "config", "usb", "package", "unwound", "over"}
    BY DEF Stages, HandlerStages, BuildStages
  <1>n. ASSUME UNCHANGED <<pc, buildCts, cancelled>>
        PROVE  UNCHANGED Abstract!vars
    BY <1>n DEF Abstract!vars, Accepted
  <1>1. ASSUME NEW b \in Starts, HandleStart(b)
        PROVE  [Abstract!Next]_Abstract!vars
    <2>1. CASE AckStart(b)
      BY <2>1, <1>s, StutterStep DEF AckStart, handlerVars
    <2>2. CASE LockStart(b)
      BY <2>2, AcceptStep DEF Abstract!Next
    <2>3. CASE RefuseStart(b)
      BY <2>3, <1>s, AnswerStep DEF RefuseStart, handlerVars, Abstract!Next
    <2>4. CASE StartThrows(b)
      BY <2>4, <1>s, AnswerStep DEF StartThrows, handlerVars, Abstract!Next
    <2>5. CASE SpawnBuild(b)
      BY <2>5, <1>s, StutterStep DEF SpawnBuild, handlerVars
    <2>6. QED BY <1>1, <2>1, <2>2, <2>3, <2>4, <2>5 DEF HandleStart
  <1>2. ASSUME NEW b \in Starts, Build(b)
        PROVE  [Abstract!Next]_Abstract!vars
    <2>1. CASE \/ MakeFolders(b) \/ DownloadOpenCore(b) \/ StartKext(b)
               \/ KextsReady(b) \/ GenerateConfig(b) \/ GenerateUsbMap(b)
      BY <2>1, <1>s, StutterStep
      DEF MakeFolders, DownloadOpenCore, StartKext, KextsReady, GenerateConfig,
          GenerateUsbMap, Advance, handlerVars
    <2>2. CASE KextLoopCancelled(b) \/ FinishKext(b) \/ PackageZip(b)
      BY <2>2, <1>s, StutterStep DEF KextLoopCancelled, FinishKext, PackageZip, handlerVars
    <2>3. CASE StageThrows(b)
      <3>1. GoTo(b, pc[b], "unwound") /\ UNCHANGED <<buildCts, cancelled>>
        BY <2>3 DEF StageThrows, GoTo, handlerVars
      <3>2. QED BY <2>3, <3>1, <1>s, StutterStep DEF StageThrows
    <2>4. CASE ReportOutcome(b)
      BY <2>4, <1>s, AnswerStep DEF ReportOutcome, handlerVars, Abstract!Next
    <2>5. QED BY <1>2, <2>1, <2>2, <2>3, <2>4 DEF Build
  <1>3. ASSUME NEW c \in Cancels, HandleCancel(c)
        PROVE  [Abstract!Next]_Abstract!vars
    <2>1. CASE LockCancel(c)
      BY <2>1, RevokeStep DEF Abstract!Next
    <2>2. CASE AnswerCancel(c)
      BY <2>2, <1>n DEF AnswerCancel, buildVars
    <2>3. QED BY <1>3, <2>1, <2>2 DEF HandleCancel
  <1>4. CASE Client
    <2>1. ASSUME NEW b \in Starts, NEW smbios \in BOOLEAN, PostStart(b, smbios),
                 UNCHANGED handlerVars
          PROVE  UNCHANGED Abstract!vars
      BY <2>1, <1>s, StutterStep DEF PostStart, handlerVars
    <2>2. CASE \E c \in Cancels :
                 PostCancel(c) /\ UNCHANGED <<buildVars, buildCts, cancelled, outbox>>
      BY <2>2, <1>n DEF buildVars
    <2>3. CASE Dispatched /\ UNCHANGED <<buildVars, handlerVars>>
      BY <2>3, <1>n DEF buildVars, handlerVars
    <2>4. QED BY <1>4, <2>1, <2>2, <2>3 DEF Client
  <1>5. CASE UNCHANGED serviceVars
    BY <1>5, <1>n DEF serviceVars, buildVars, handlerVars
  <1>6. QED BY <1>1, <1>2, <1>3, <1>4, <1>5 DEF Next, Service

\* Every behaviour of the service is one of LatestBuild, its fairness apart: the
\* one slot buildCts (HandlersSetup.cs:300-314, 398-402) makes the latest accepted
\* build the only live one.
THEOREM ImplementsLatestBuildSafety == Spec => Abstract!Init /\ [][Abstract!Next]_Abstract!vars
  <1>1. ServiceInit => Abstract!Init
    BY DEF ServiceInit, Abstract!Init, Accepted
  <1>2. TypeInv /\ [Next]_serviceVars => [Abstract!Next]_Abstract!vars
    BY ImplementsStep DEF TypeInv
  <1>3. Spec => []TypeInv
    BY InitTypeInv, TypeInvStep, PTL DEF Spec
  <1>4. QED BY <1>1, <1>2, <1>3, PTL DEF Spec
=============================================================================
