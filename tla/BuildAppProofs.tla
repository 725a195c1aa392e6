--------------------------- MODULE BuildAppProofs ---------------------------
(***************************************************************************)
(* Theorems about the build page over the build service, for any number of *)
(* builds, kexts, clicks on Cancel and messages in flight.                 *)
(*                                                                         *)
(* The events of the service name no build: that the page never mixes up   *)
(* two builds is a fact about the buttons it shows and about the order of  *)
(* the messages, and AppInv says how: while a build is outstanding, it is  *)
(* the one asked for, no result is held and a stage is on screen, so that  *)
(* neither the start button nor the retry button can be seen.              *)
(***************************************************************************)
EXTENDS BuildApp, BuildServiceProofs

\* A message the page listens to comes from an outstanding build.
HeardIsOutstanding ==
    \A i \in 1 .. Len(outbox) :
        outbox[i].event \in Listened =>
            /\ outbox[i].build \in Starts
            /\ Outstanding(outbox[i].build)
            /\ (outbox[i].event = "build:progress" => outbox[i].stage \in ProgressStages)
            /\ (outbox[i].event = "build:complete" => outcome[outbox[i].build] = "complete")

OutstandingIsAsked ==
    \A b \in Starts : Outstanding(b) => /\ asked = b
                                        /\ buildResult = NoBuild
                                        /\ buildProgress \in ProgressStages

ResultIsShown ==
    buildResult # NoBuild => /\ buildResult = asked
                             /\ outcome[asked] = "complete"
                             /\ buildProgress \in ProgressStages

SpinnerOnPage ==
    isBuilding => /\ page = "build"
                  /\ asked # NoBuild
                  /\ Outstanding(asked) \/ outcome[asked] = "threw"

\* What build:start finds in buildCts was accepted earlier.
SlotIsAccepted == buildCts # NoBuild => Accepted(buildCts)

PageInv == HeardIsOutstanding /\ OutstandingIsAsked /\ ResultIsShown /\ SpinnerOnPage

ServiceInv == BuildInv /\ OrderInv

AppInv == ServiceInv /\ AppTypeOK /\ PageInv /\ SlotIsAccepted

-----------------------------------------------------------------------------
(* The steps of the application are steps of the service.                  *)

LEMMA UserSteps ==
    ASSUME AppTypeOK, User
    PROVE  \/ \E b \in Starts : /\ StartBuild(b)
                                /\ page = "build"
                                /\ buildProgress \in {"undefined", "error"}
           \/ \E c \in Cancels : ClickCancel(c)
           \/ UNCHANGED serviceVars
  BY DEF User, Configure, Navigate, ClickStart, ClickRetry, NewBuild

LEMMA UserIsClient ==
    ASSUME AppTypeOK, User
    PROVE  [Client]_serviceVars
  <1>1. ASSUME NEW b \in Starts, StartBuild(b)
        PROVE  Client
    BY <1>1 DEF StartBuild, Client, AppTypeOK
  <1>2. ASSUME NEW c \in Cancels, ClickCancel(c)
        PROVE  Client
    BY <1>2 DEF ClickCancel, Client
  <1>3. QED BY <1>1, <1>2, UserSteps

LEMMA AppIsService ==
    ASSUME AppTypeOK, [AppNext]_vars
    PROVE  [Next]_serviceVars
  <1>1. CASE Service /\ UNCHANGED uiVars
    BY <1>1 DEF Next
  <1>2. CASE User
    BY <1>2, UserIsClient DEF Next
  <1>3. CASE DispatchMessage
    BY <1>3 DEF DispatchMessage, Next, Client
  <1>4. CASE UNCHANGED vars
    BY <1>4 DEF vars
  <1>5. QED BY <1>1, <1>2, <1>3, <1>4 DEF AppNext

-----------------------------------------------------------------------------
(* What a step of the service does to the builds that are outstanding.     *)

\* A message fits the step that sends it.
Fits(m) ==
    m.event \in Listened =>
        /\ m.build \in Starts
        /\ pc[m.build] \notin {"idle", "over"}
        /\ pc'[m.build] # "idle"
        /\ (m.event = "build:progress" => m.stage \in ProgressStages /\ pc'[m.build] # "over")
        /\ (m.event = "build:complete" => outcome'[m.build] = "complete")

\* A request neither begins nor resumes by itself, keeps the outcome it has, and
\* ends with a terminal event unless its handler threw.
Moves ==
    \A d \in Starts :
        /\ pc[d] \in {"idle", "over"} => pc'[d] = pc[d]
        /\ pc[d] # "idle" => pc'[d] # "idle"
        /\ outcome[d] # "pending" => outcome'[d] = outcome[d]

Ends(d) == pc[d] # "over" /\ pc'[d] = "over"

Serves ==
    /\ Moves
    /\ \/ outbox' = outbox /\ \A d \in Starts : ~Ends(d)
       \/ \E m \in Messages :
            /\ outbox' = Append(outbox, m)
            /\ Fits(m)
            /\ \A d \in Starts : Ends(d) => \/ pc[d] = "locked" /\ outcome'[d] = "threw"
                                            \/ m.build = d /\ Terminal(m)

\* The fields of a message.
LEMMA Fields ==
    ASSUME NEW event, NEW b, NEW stage
    PROVE  /\ Message(event, b, stage).event = event
           /\ Message(event, b, stage).build = b
           /\ Message(event, b, stage).stage = stage
  BY DEF Message

LEMMA HandleStartServes ==
    ASSUME BuildInv, NEW b \in Starts, HandleStart(b)
    PROVE  Serves
  <1>t. /\ pc \in [Starts -> Stages] /\ outcome \in [Starts -> Outcomes]
        /\ OutcomeIsLast
    BY DEF BuildInv, TypeInv, ServiceTypeOK
  <1>l. Listened = {"build:complete", "build:error", "build:progress"}
    BY DEF Listened, TerminalEvents
  <1>m. ASSUME NEW event \in {"build:started", "build:error", "build:start"}
        PROVE  /\ Message(event, b, "none") \in Messages
               /\ Message(event, b, "none").event = event
               /\ Message(event, b, "none").build = b
    BY MessageType, Fields
  <1>1. CASE LockStart(b) \/ SpawnBuild(b)
    BY <1>1, <1>t DEF LockStart, SpawnBuild, GoTo, Serves, Moves, Ends, OutcomeIsLast
  <1>2. CASE AckStart(b)
    <2> DEFINE m == Message("build:started", b, "none")
    <2>1. m \in Messages /\ m.event = "build:started"
      BY <1>m
    <2>2. outbox' = Append(outbox, m)
      BY <1>2 DEF AckStart, Send
    <2> HIDE DEF m
    <2>3. Moves /\ \A d \in Starts : ~Ends(d)
      BY <1>2, <1>t DEF AckStart, GoTo, Moves, Ends
    <2>4. QED BY <2>1, <2>2, <2>3, <1>l DEF Serves, Fits
  <1>3. CASE RefuseStart(b)
    <2> DEFINE m == Message("build:error", b, "none")
    <2>1. m \in Messages /\ m.event = "build:error" /\ m.build = b
      BY <1>m
    <2>2. outbox' = Append(outbox, m)
      BY <1>3 DEF RefuseStart, Send
    <2> HIDE DEF m
    <2>3. Moves /\ pc[b] = "locked" /\ pc'[b] = "over" /\ \A d \in Starts : Ends(d) => d = b
      BY <1>3, <1>t DEF RefuseStart, GoTo, End, Moves, Ends, OutcomeIsLast
    <2>4. QED BY <2>1, <2>2, <2>3, <1>l DEF Serves, Fits, Terminal, TerminalEvents
  <1>4. CASE StartThrows(b)
    <2> DEFINE m == Message("build:start", b, "none")
    <2>1. m \in Messages /\ m.event = "build:start" /\ m.build = b
      BY <1>m
    <2>2. outbox' = Append(outbox, m)
      BY <1>4 DEF StartThrows, Send
    <2> HIDE DEF m
    <2>3. Moves /\ pc[b] = "locked" /\ outcome'[b] = "threw" /\ \A d \in Starts : Ends(d) => d = b
      BY <1>4, <1>t DEF StartThrows, GoTo, End, Moves, Ends, OutcomeIsLast
    <2>4. QED BY <2>1, <2>2, <2>3, <1>l DEF Serves, Fits
  <1>5. QED BY <1>1, <1>2, <1>3, <1>4 DEF HandleStart

LEMMA AdvanceServes ==
    ASSUME BuildInv, NEW b \in Starts, NEW from \in BuildStages, NEW to \in BuildStages,
           NEW stage \in ProgressStages, Advance(b, from, to, stage)
    PROVE  Serves
  <1>t. pc \in [Starts -> Stages]
    BY DEF BuildInv, TypeInv, ServiceTypeOK
  <1> DEFINE m == Message("build:progress", b, stage)
  <1>1. m \in Messages /\ m.event = "build:progress" /\ m.build = b /\ m.stage = stage
    BY MessageType, Fields
  <1>2. outbox' = Append(outbox, m)
    BY DEF Advance, Send
  <1> HIDE DEF m
  <1>3. from \notin {"idle", "over"} /\ to \notin {"idle", "over"}
    BY DEF BuildStages
  <1>4. /\ Moves /\ pc[b] = from /\ pc'[b] = to /\ \A d \in Starts : ~Ends(d)
    BY <1>t, <1>3 DEF Advance, GoTo, Moves, Ends
  <1>5. QED BY <1>1, <1>2, <1>3, <1>4 DEF Serves, Fits

LEMMA BuildServes ==
    ASSUME BuildInv, NEW b \in Starts, Build(b)
    PROVE  Serves
  <1>t. /\ pc \in [Starts -> Stages] /\ outcome \in [Starts -> Outcomes]
        /\ OutcomeIsLast
    BY DEF BuildInv, TypeInv, ServiceTypeOK
  <1>b. BuildStages = {"folders", "opencore", "kexts", "kext", "config", "usb", "package"}
    BY DEF BuildStages
  <1>p. ProgressStages = {"downloading-opencore", "downloading-kexts", "generating-config",
                          "generating-usb-map", "complete"}
    BY DEF ProgressStages
  <1>1. CASE MakeFolders(b) \/ DownloadOpenCore(b) \/ StartKext(b) \/ KextsReady(b)
                \/ GenerateConfig(b) \/ GenerateUsbMap(b)
    BY <1>1, <1>b, <1>p, AdvanceServes
    DEF MakeFolders, DownloadOpenCore, StartKext, KextsReady, GenerateConfig, GenerateUsbMap
  <1>2. CASE KextLoopCancelled(b) \/ FinishKext(b) \/ StageThrows(b)
    BY <1>2, <1>t
    DEF KextLoopCancelled, FinishKext, StageThrows, GoTo, End, Serves, Moves, Ends, OutcomeIsLast
  <1>3. CASE PackageZip(b)
    <2> DEFINE m == Message("build:progress", b, "complete")
    <2>1. m \in Messages /\ m.event = "build:progress" /\ m.build = b /\ m.stage = "complete"
      BY <1>p, MessageType, Fields
    <2>2. outbox' = Append(outbox, m)
      BY <1>3 DEF PackageZip, Send
    <2> HIDE DEF m
    <2>3. Moves /\ pc[b] = "package" /\ pc'[b] = "unwound" /\ \A d \in Starts : ~Ends(d)
      BY <1>3, <1>t DEF PackageZip, GoTo, End, Moves, Ends, OutcomeIsLast
    <2>4. QED BY <2>1, <2>2, <2>3, <1>p DEF Serves, Fits
  <1>4. CASE ReportOutcome(b)
    <2> DEFINE event == IF outcome[b] = "complete" THEN "build:complete" ELSE "build:error"
               m == Message(event, b, "none")
    <2>1. event \in {"build:complete", "build:error"}
          /\ (event = "build:complete" => outcome[b] = "complete")
      OBVIOUS
    <2>2. outbox' = Append(outbox, m)
      BY <1>4 DEF ReportOutcome, Send
    <2> HIDE DEF event
    <2>3. m \in Messages /\ m.event = event /\ m.build = b
      BY <2>1, MessageType, Fields
    <2> HIDE DEF m
    <2>4. /\ Moves /\ pc[b] = "unwound" /\ pc'[b] = "over" /\ outcome' = outcome
          /\ \A d \in Starts : Ends(d) => d = b
      BY <1>4, <1>t DEF ReportOutcome, GoTo, Moves, Ends
    <2>5. QED BY <2>1, <2>2, <2>3, <2>4 DEF Serves, Fits, Terminal, TerminalEvents
  <1>5. QED BY <1>1, <1>2, <1>3, <1>4 DEF Build

LEMMA ServiceServes ==
    ASSUME BuildInv, Service
    PROVE  Serves
  <1>1. ASSUME NEW c \in Cancels, HandleCancel(c)
        PROVE  Serves
    <2>1. CASE LockCancel(c)
      BY <2>1 DEF LockCancel, buildVars, Serves, Moves, Ends
    <2>2. CASE AnswerCancel(c)
      <3> DEFINE m == Message("build:cancelled", NoBuild, "none")
      <3>1. m \in Messages /\ m.event = "build:cancelled"
        BY MessageType, Fields
      <3>2. outbox' = Append(outbox, m) /\ Moves /\ \A d \in Starts : ~Ends(d)
        BY <2>2 DEF AnswerCancel, Send, buildVars, Moves, Ends
      <3> HIDE DEF m
      <3>3. QED BY <3>1, <3>2 DEF Serves, Fits, Listened, TerminalEvents
    <2>3. QED BY <1>1, <2>1, <2>2 DEF HandleCancel
  <1>2. QED BY <1>1, HandleStartServes, BuildServes DEF Service

\* Outstanding in the next state, of a build that the next state may name.
OutstandingNext(d) ==
    \/ pc'[d] \notin {"idle", "over"}
    \/ \E i \in 1 .. Len(outbox') : outbox'[i].build = d /\ Terminal(outbox'[i])

\* A step of the service makes no build outstanding, and one that was stays so
\* unless its handler throws.
LEMMA ServedOutstanding ==
    ASSUME ServiceTypeOK, Serves, NEW d \in Starts
    PROVE  /\ OutstandingNext(d) => Outstanding(d)
           /\ Outstanding(d) => OutstandingNext(d) \/ (pc[d] = "locked" /\ outcome'[d] = "threw")
  <1>o. /\ outbox \in Seq(Messages) /\ Len(outbox) \in Nat
    BY DEF ServiceTypeOK
  <1>m. /\ pc[d] \in {"idle", "over"} => pc'[d] = pc[d]
        /\ pc[d] # "idle" => pc'[d] # "idle"
    BY DEF Serves, Moves
  <1>1. CASE outbox' = outbox /\ \A e \in Starts : ~Ends(e)
    <2>1. ~Ends(d)
      BY <1>1
    <2>2. QED BY <1>1, <1>m, <2>1 DEF Outstanding, OutstandingNext, Terminal, Ends
  <1>2. ASSUME NEW m \in Messages, outbox' = Append(outbox, m), Fits(m),
               \A e \in Starts : Ends(e) => \/ pc[e] = "locked" /\ outcome'[e] = "threw"
                                            \/ m.build = e /\ Terminal(m)
        PROVE  /\ OutstandingNext(d) => Outstanding(d)
               /\ Outstanding(d) => OutstandingNext(d) \/ (pc[d] = "locked" /\ outcome'[d] = "threw")
    <2>1. /\ Len(outbox') = Len(outbox) + 1
          /\ \A i \in 1 .. Len(outbox) : outbox'[i] = outbox[i]
          /\ outbox'[Len(outbox) + 1] = m
      BY <1>2, <1>o, AppendProperties
    <2>2. \A i \in 1 .. Len(outbox) : i \in 1 .. Len(outbox')
      BY <2>1, <1>o
    <2>3. Len(outbox) + 1 \in 1 .. Len(outbox')
      BY <2>1, <1>o
    <2>4. \A i \in 1 .. Len(outbox') : i \in 1 .. Len(outbox) \/ i = Len(outbox) + 1
      BY <2>1, <1>o
    <2>5. Terminal(m) => m.build \in Starts /\ pc[m.build] \notin {"idle", "over"}
      BY <1>2 DEF Fits, Terminal, Listened
    <2>6. ASSUME OutstandingNext(d)
          PROVE  Outstanding(d)
      <3>1. CASE pc'[d] \notin {"idle", "over"}
        BY <3>1, <1>m DEF Outstanding, OutstandingNext
      <3>2. ASSUME NEW i \in 1 .. Len(outbox'), outbox'[i].build = d, Terminal(outbox'[i])
            PROVE  Outstanding(d)
        <4>1. CASE i \in 1 .. Len(outbox)
          BY <4>1, <3>2, <2>1 DEF Outstanding, OutstandingNext
        <4>2. CASE i = Len(outbox) + 1
          BY <4>2, <3>2, <2>1, <2>5 DEF Outstanding, OutstandingNext
        <4>3. QED BY <4>1, <4>2, <2>4
      <3>3. QED BY <2>6, <3>1, <3>2 DEF Outstanding, OutstandingNext, Terminal
    <2>7. ASSUME Outstanding(d), ~(pc[d] = "locked" /\ outcome'[d] = "threw")
          PROVE  OutstandingNext(d)
      <3>1. CASE pc'[d] \notin {"idle", "over"}
        BY <3>1 DEF Outstanding, OutstandingNext
      <3>2. ASSUME NEW i \in 1 .. Len(outbox), outbox[i].build = d, Terminal(outbox[i])
            PROVE  OutstandingNext(d)
        BY <3>2, <2>1, <2>2 DEF Outstanding, OutstandingNext, Terminal
      <3>3. CASE pc[d] \notin {"idle", "over"} /\ pc'[d] \in {"idle", "over"}
        <4>1. Ends(d)
          BY <3>3, <1>m DEF Ends
        <4>2. m.build = d /\ Terminal(m)
          BY <4>1, <1>2, <2>7
        <4>3. QED BY <4>2, <2>1, <2>3 DEF Outstanding, OutstandingNext, Terminal
      <3>4. QED BY <2>7, <3>1, <3>2, <3>3 DEF Outstanding, OutstandingNext
    <2>8. QED BY <2>6, <2>7
  <1>3. QED BY <1>1, <1>2 DEF Serves

\* The messages the page listens to stay those of outstanding builds.
LEMMA ServedHeard ==
    ASSUME ServiceInv, Serves, HeardIsOutstanding
    PROVE  HeardIsOutstanding'
  <1>t. ServiceTypeOK /\ OutcomeIsLast
    BY DEF ServiceInv, BuildInv, TypeInv
  <1>o. /\ outbox \in Seq(Messages) /\ Len(outbox) \in Nat
        /\ pc \in [Starts -> Stages] /\ outcome \in [Starts -> Outcomes]
    BY <1>t DEF ServiceTypeOK
  <1>k. \A d \in Starts : outcome[d] # "pending" => outcome'[d] = outcome[d]
    BY DEF Serves, Moves
  <1> SUFFICES ASSUME NEW i \in 1 .. Len(outbox'), outbox'[i].event \in Listened
               PROVE  /\ outbox'[i].build \in Starts
                      /\ OutstandingNext(outbox'[i].build)
                      /\ outbox'[i].event = "build:progress" => outbox'[i].stage \in ProgressStages
                      /\ outbox'[i].event = "build:complete"
                            => outcome'[outbox'[i].build] = "complete"
    BY DEF HeardIsOutstanding, Listened, Outstanding, OutstandingNext, Terminal
  <1>1. CASE i \in 1 .. Len(outbox) /\ outbox'[i] = outbox[i]
    <2> DEFINE d == outbox[i].build
    <2>1. /\ d \in Starts
          /\ Outstanding(d)
          /\ outbox[i].event = "build:progress" => outbox[i].stage \in ProgressStages
          /\ outbox[i].event = "build:complete" => outcome[d] = "complete"
      BY <1>1 DEF HeardIsOutstanding
    <2>2. pc[d] # "locked"
      <3>1. Rank(outbox[i]) >= 2
        BY <1>1 DEF Rank, Listened, TerminalEvents
      <3>2. Rank(outbox[i]) <= Sent(pc[d])
        BY <1>1, <2>1, ServiceAssumption DEF ServiceInv, OrderInv, MessagesFollowStages
      <3>3. Sent("locked") = 1
        BY DEF Sent
      <3>4. Rank(outbox[i]) \in 1 .. 3
        BY RankSent
      <3>5. QED BY <3>1, <3>2, <3>3, <3>4
    <2>3. OutstandingNext(d)
      <3>1. \A e \in Starts : Outstanding(e) => OutstandingNext(e) \/ pc[e] = "locked"
        BY <1>t, ServedOutstanding
      <3>2. QED BY <3>1, <2>1, <2>2, <1>1 DEF Outstanding, OutstandingNext, Terminal
    <2>4. QED BY <2>1, <2>3, <1>1, <1>k DEF Outstanding, OutstandingNext, Terminal
  <1>2. ASSUME NEW m \in Messages, i = Len(outbox) + 1, outbox'[i] = m, Fits(m),
               \A e \in Starts : Ends(e) => \/ pc[e] = "locked" /\ outcome'[e] = "threw"
                                            \/ m.build = e /\ Terminal(m)
        PROVE  /\ m.build \in Starts
               /\ \/ pc'[m.build] \notin {"idle", "over"}
                  \/ outbox'[i].build = m.build /\ Terminal(outbox'[i])
               /\ m.event = "build:progress" => m.stage \in ProgressStages
               /\ m.event = "build:complete" => outcome'[m.build] = "complete"
    BY <1>2 DEF Fits, Listened, Terminal
  <1>3. CASE outbox' = outbox
    BY <1>1, <1>3
  <1>4. ASSUME NEW m \in Messages, outbox' = Append(outbox, m), Fits(m),
               \A e \in Starts : Ends(e) => \/ pc[e] = "locked" /\ outcome'[e] = "threw"
                                            \/ m.build = e /\ Terminal(m)
        PROVE  /\ outbox'[i].build \in Starts
               /\ OutstandingNext(outbox'[i].build)
               /\ outbox'[i].event = "build:progress" => outbox'[i].stage \in ProgressStages
               /\ outbox'[i].event = "build:complete"
                     => outcome'[outbox'[i].build] = "complete"
    <2>1. /\ Len(outbox') = Len(outbox) + 1
          /\ \A j \in 1 .. Len(outbox) : outbox'[j] = outbox[j]
          /\ outbox'[Len(outbox) + 1] = m
      BY <1>4, <1>o, AppendProperties
    <2>2. CASE i \in 1 .. Len(outbox)
      BY <2>1, <2>2, <1>1
    <2>3. CASE i = Len(outbox) + 1
      BY <2>1, <2>3, <1>2, <1>4 DEF Outstanding, OutstandingNext, Terminal
    <2>4. QED BY <2>1, <2>2, <2>3, <1>o
  <1>5. QED BY <1>3, <1>4 DEF Serves

-----------------------------------------------------------------------------
(* What a dispatch does to them.                                           *)

LEMMA DispatchedTail ==
    ASSUME ServiceTypeOK, Dispatched
    PROVE  /\ Len(outbox) \in Nat \ {0}
           /\ Head(outbox) = outbox[1]
           /\ Head(outbox) \in Messages
           /\ \A i \in 1 .. Len(outbox') : i + 1 \in 1 .. Len(outbox) /\ outbox'[i] = outbox[i + 1]
           /\ \A i \in 1 .. Len(outbox) : i # 1 => /\ i - 1 \in 1 .. Len(outbox')
                                                   /\ outbox'[i - 1] = outbox[i]
  <1>o. /\ outbox \in Seq(Messages) /\ outbox # <<>> /\ Len(outbox) \in Nat
        /\ outbox' = Tail(outbox)
    BY DEF ServiceTypeOK, Dispatched
  <1>1. /\ Len(outbox) \in Nat \ {0}
        /\ Head(outbox) = outbox[1] /\ Head(outbox) \in Messages
    BY <1>o
  <1>2. /\ Len(outbox') = Len(outbox) - 1
        /\ \A i \in 1 .. Len(outbox) - 1 : outbox'[i] = outbox[i + 1]
    BY <1>o, HeadTailProperties
  <1>3. QED BY <1>1, <1>2

\* The terminal message of a build is its last.
LEMMA NothingFollows ==
    ASSUME ServiceInv, Dispatched, Terminal(Head(outbox)), NEW i \in 1 .. Len(outbox'),
           outbox'[i].build = Head(outbox).build
    PROVE  Head(outbox).build = NoBuild
  <1>t. ServiceTypeOK /\ MessagesInOrder
    BY DEF ServiceInv, OrderInv, TypeInv
  <1>1. /\ i + 1 \in 1 .. Len(outbox) /\ outbox'[i] = outbox[i + 1]
        /\ 1 \in 1 .. Len(outbox) /\ Head(outbox) = outbox[1] /\ 1 < i + 1
    BY <1>t, DispatchedTail
  <1>2. Rank(outbox[1]) = 3
    BY <1>1 DEF Terminal, TerminalEvents, Rank
  <1>3. QED BY <1>t, <1>1, <1>2 DEF MessagesInOrder

LEMMA DispatchedOutstanding ==
    ASSUME ServiceInv, Dispatched, pc' = pc, NEW d \in Starts
    PROVE  /\ OutstandingNext(d) => Outstanding(d)
           /\ Terminal(Head(outbox)) /\ Head(outbox).build = d => ~OutstandingNext(d)
           /\ Outstanding(d) => \/ OutstandingNext(d)
                                \/ Terminal(Head(outbox)) /\ Head(outbox).build = d
  <1>t. ServiceTypeOK /\ MessagesFollowStages
    BY DEF ServiceInv, OrderInv, TypeInv
  <1>d. /\ Len(outbox) \in Nat \ {0}
        /\ Head(outbox) = outbox[1]
        /\ \A i \in 1 .. Len(outbox') : i + 1 \in 1 .. Len(outbox) /\ outbox'[i] = outbox[i + 1]
        /\ \A i \in 1 .. Len(outbox) : i # 1 => /\ i - 1 \in 1 .. Len(outbox')
                                                /\ outbox'[i - 1] = outbox[i]
    BY <1>t, DispatchedTail
  <1>1. OutstandingNext(d) => Outstanding(d)
    BY <1>d DEF OutstandingNext, Outstanding
  <1>2. ASSUME Terminal(Head(outbox)), Head(outbox).build = d
        PROVE  ~OutstandingNext(d)
    <2>1. pc[d] = "over"
      <3>1. Rank(outbox[1]) = 3
        BY <1>2, <1>d DEF Terminal, TerminalEvents, Rank
      <3>2. 1 \in 1 .. Len(outbox) /\ outbox[1].build = d /\ d # NoBuild
        BY <1>2, <1>d, ServiceAssumption
      <3>3. 3 <= Sent(pc[d])
        BY <3>1, <3>2, <1>t DEF MessagesFollowStages
      <3>4. QED BY <3>3 DEF Sent
    <2>2. \A i \in 1 .. Len(outbox') : outbox'[i].build # d
      BY <1>2, NothingFollows, ServiceAssumption
    <2>3. QED BY <2>1, <2>2 DEF OutstandingNext
  <1>3. ASSUME Outstanding(d), ~(Terminal(Head(outbox)) /\ Head(outbox).build = d)
        PROVE  OutstandingNext(d)
    <2>1. CASE pc[d] \notin {"idle", "over"}
      BY <2>1 DEF OutstandingNext
    <2>2. ASSUME NEW i \in 1 .. Len(outbox), outbox[i].build = d, Terminal(outbox[i])
          PROVE  OutstandingNext(d)
      <3>1. i # 1
        BY <2>2, <1>3, <1>d
      <3>2. i - 1 \in 1 .. Len(outbox') /\ outbox'[i - 1] = outbox[i]
        BY <3>1, <1>d
      <3>3. QED BY <2>2, <3>2 DEF OutstandingNext
    <2>3. QED BY <1>3, <2>1, <2>2 DEF Outstanding
  <1>4. QED BY <1>1, <1>2, <1>3

LEMMA DispatchedHeard ==
    ASSUME ServiceInv, HeardIsOutstanding, Dispatched, pc' = pc, outcome' = outcome
    PROVE  HeardIsOutstanding'
  <1>t. ServiceTypeOK
    BY DEF ServiceInv, OrderInv, TypeInv
  <1> SUFFICES ASSUME NEW i \in 1 .. Len(outbox'), outbox'[i].event \in Listened
               PROVE  /\ outbox'[i].build \in Starts
                      /\ OutstandingNext(outbox'[i].build)
                      /\ outbox'[i].event = "build:progress" => outbox'[i].stage \in ProgressStages
                      /\ outbox'[i].event = "build:complete"
                            => outcome'[outbox'[i].build] = "complete"
    BY DEF HeardIsOutstanding, Listened, Outstanding, OutstandingNext, Terminal
  <1>1. i + 1 \in 1 .. Len(outbox) /\ outbox'[i] = outbox[i + 1]
    BY <1>t, DispatchedTail
  <1> DEFINE d == outbox[i + 1].build
  <1>2. /\ d \in Starts
        /\ Outstanding(d)
        /\ outbox[i + 1].event = "build:progress" => outbox[i + 1].stage \in ProgressStages
        /\ outbox[i + 1].event = "build:complete" => outcome[d] = "complete"
    BY <1>1 DEF HeardIsOutstanding
  <1>3. ~(Terminal(Head(outbox)) /\ Head(outbox).build = d)
    BY <1>1, <1>2, NothingFollows, ServiceAssumption
  <1>4. \A e \in Starts : Outstanding(e) => \/ OutstandingNext(e)
                                            \/ Terminal(Head(outbox)) /\ Head(outbox).build = e
    BY DispatchedOutstanding
  <1>5. OutstandingNext(d)
    BY <1>2, <1>3, <1>4
  <1>6. QED BY <1>1, <1>2, <1>5

-----------------------------------------------------------------------------
(* The page.                                                               *)

LEMMA InitAppInv == Init => AppInv
  <1> SUFFICES ASSUME Init PROVE AppInv
    OBVIOUS
  <1>1. ServiceInv
    BY InitBuildInv DEF Init, ServiceInv, OrderInv, BuildInv, ServiceInit, MessagesFollowStages,
                        MessagesInOrder
  <1>2. AppTypeOK
    BY <1>1 DEF ServiceInv, BuildInv, TypeInv, AppTypeOK, Init, Pages
  <1>3. outbox = <<>> /\ Len(outbox) = 0 /\ \A b \in Starts : pc[b] = "idle"
    BY DEF Init, ServiceInit
  <1>4. 1 .. Len(outbox) = {} /\ \A b \in Starts : ~Outstanding(b)
    <2>1. 1 .. 0 = {}
      OBVIOUS
    <2>2. QED BY <1>3, <2>1 DEF Outstanding
  <1>5. PageInv
    BY <1>3, <1>4 DEF PageInv, HeardIsOutstanding, OutstandingIsAsked, ResultIsShown,
                      SpinnerOnPage, Init
  <1>6. SlotIsAccepted
    BY DEF SlotIsAccepted, Init, ServiceInit
  <1>7. QED BY <1>1, <1>2, <1>5, <1>6 DEF AppInv

\* While the service steps, the page stands still.
LEMMA ServicePage ==
    ASSUME AppInv, Service, UNCHANGED uiVars
    PROVE  PageInv'
  <1>t. ServiceInv /\ BuildInv /\ ServiceTypeOK /\ PageInv /\ AppTypeOK
    BY DEF AppInv, ServiceInv, BuildInv, TypeInv
  <1>u. UNCHANGED <<page, isBuilding, buildProgress, buildResult, configured, asked>>
    BY DEF uiVars, pageVars, contextVars
  <1>s. Serves
    BY <1>t, ServiceServes
  <1>o. \A d \in Starts :
           /\ OutstandingNext(d) => Outstanding(d)
           /\ Outstanding(d) => OutstandingNext(d) \/ (pc[d] = "locked" /\ outcome'[d] = "threw")
    BY <1>t, <1>s, ServedOutstanding
  <1>k. \A d \in Starts : outcome[d] # "pending" => outcome'[d] = outcome[d]
    BY <1>s DEF Serves, Moves
  <1>1. HeardIsOutstanding'
    BY <1>t, <1>s, ServedHeard DEF PageInv
  <1>2. OutstandingIsAsked'
    <2> SUFFICES ASSUME NEW b \in Starts, OutstandingNext(b)
                 PROVE  asked = b /\ buildResult = NoBuild /\ buildProgress \in ProgressStages
      BY <1>u DEF OutstandingIsAsked, Outstanding, OutstandingNext, Terminal, ProgressStages
    <2>1. QED BY <1>o, <1>t DEF PageInv, OutstandingIsAsked
  <1>3. ResultIsShown'
    BY <1>k, <1>u, <1>t DEF PageInv, ResultIsShown, AppTypeOK, ProgressStages
  <1>4. SpinnerOnPage'
    <2> SUFFICES ASSUME isBuilding
                 PROVE  /\ page = "build" /\ asked # NoBuild
                        /\ OutstandingNext(asked) \/ outcome'[asked] = "threw"
      BY <1>u DEF SpinnerOnPage, Outstanding, OutstandingNext, Terminal
    <2>1. /\ page = "build" /\ asked \in Starts /\ asked # NoBuild
          /\ Outstanding(asked) \/ outcome[asked] = "threw"
      BY <1>t DEF PageInv, SpinnerOnPage, AppTypeOK
    <2>2. QED BY <2>1, <1>o, <1>k
  <1>5. QED BY <1>1, <1>2, <1>3, <1>4 DEF PageInv

\* A build is asked for only when none is outstanding.
LEMMA NoneOutstanding ==
    ASSUME AppInv, buildProgress \in {"undefined", "error"}
    PROVE  /\ \A d \in Starts : ~Outstanding(d)
           /\ \A i \in 1 .. Len(outbox) : outbox[i].event \notin Listened
           /\ buildResult = NoBuild
  <1>1. buildProgress \notin ProgressStages
    BY DEF ProgressStages
  <1>2. QED BY <1>1 DEF AppInv, PageInv, OutstandingIsAsked, HeardIsOutstanding, ResultIsShown

LEMMA StartPage ==
    ASSUME AppInv, NEW b \in Starts, StartBuild(b), page = "build",
           buildProgress \in {"undefined", "error"}
    PROVE  PageInv'
  <1>t. pc \in [Starts -> Stages]
    BY DEF AppInv, AppTypeOK, ServiceTypeOK
  <1>n. /\ \A d \in Starts : ~Outstanding(d)
        /\ \A i \in 1 .. Len(outbox) : outbox[i].event \notin Listened
        /\ buildResult = NoBuild
    BY NoneOutstanding
  <1>a. /\ pc'[b] = "posted" /\ outbox' = outbox
        /\ \A d \in Starts \ {b} : pc'[d] = pc[d]
        /\ isBuilding' /\ buildProgress' \in ProgressStages /\ asked' = b
        /\ buildResult' = buildResult /\ page' = page
    BY <1>t DEF StartBuild, PostStart, GoTo, ProgressStages
  <1>1. HeardIsOutstanding'
    BY <1>n, <1>a DEF HeardIsOutstanding, Listened
  <1>2. OutstandingIsAsked'
    <2> SUFFICES ASSUME NEW d \in Starts, OutstandingNext(d)
                 PROVE  asked' = d /\ buildResult' = NoBuild /\ buildProgress' \in ProgressStages
      BY DEF OutstandingIsAsked, Outstanding, OutstandingNext, Terminal, ProgressStages
    <2>1. CASE d = b
      BY <2>1, <1>a, <1>n
    <2>2. CASE d # b
      BY <2>2, <1>a, <1>n DEF Outstanding, OutstandingNext
    <2>3. QED BY <2>1, <2>2
  <1>3. ResultIsShown'
    BY <1>a, <1>n DEF ResultIsShown
  <1>4. SpinnerOnPage'
    BY <1>a, ServiceAssumption DEF SpinnerOnPage, Outstanding
  <1>5. QED BY <1>1, <1>2, <1>3, <1>4 DEF PageInv

\* The user's other steps start no build.
LEMMA IdlePage ==
    ASSUME AppInv,
           \/ Configure \/ NewBuild
           \/ \E to \in Pages : Navigate(to)
           \/ \E c \in Cancels : ClickCancel(c)
    PROVE  PageInv'
  <1>p. PageInv
    BY DEF AppInv
  <1>1. CASE Configure \/ (\E c \in Cancels : ClickCancel(c)) \/ \E to \in Pages : Navigate(to)
    <2>1. /\ UNCHANGED <<pc, outcome, outbox, buildProgress, buildResult, asked>>
          /\ isBuilding' => isBuilding /\ page' = page
      BY <1>1 DEF Configure, ClickCancel, Navigate, serviceVars, buildVars, pageVars, contextVars
    <2>2. HeardIsOutstanding' /\ OutstandingIsAsked' /\ ResultIsShown'
      BY <2>1, <1>p DEF PageInv, HeardIsOutstanding, OutstandingIsAsked, ResultIsShown,
                        Outstanding, Terminal
    <2>3. SpinnerOnPage'
      BY <2>1, <1>p DEF PageInv, SpinnerOnPage, Outstanding, Terminal
    <2>4. QED BY <2>2, <2>3 DEF PageInv
  <1>2. CASE NewBuild
    <2>1. /\ UNCHANGED <<pc, outcome, outbox>>
          /\ page = "result" /\ isBuilding' = isBuilding
          /\ buildResult # NoBuild /\ buildResult' = NoBuild
      BY <1>2 DEF NewBuild, serviceVars, buildVars
    <2>2. \A d \in Starts : ~Outstanding(d)
      BY <2>1, <1>p DEF PageInv, OutstandingIsAsked
    <2>3. HeardIsOutstanding' /\ ~isBuilding'
      BY <2>1, <1>p DEF PageInv, HeardIsOutstanding, Outstanding, Terminal, SpinnerOnPage
    <2>4. OutstandingIsAsked' /\ ResultIsShown' /\ SpinnerOnPage'
      BY <2>1, <2>2, <2>3 DEF OutstandingIsAsked, ResultIsShown, SpinnerOnPage, Outstanding,
                              Terminal
    <2>5. QED BY <2>3, <2>4 DEF PageInv
  <1>3. QED BY <1>1, <1>2

\* A message that arrives is that of the build asked for.
LEMMA DispatchPage ==
    ASSUME AppInv, DispatchMessage
    PROVE  PageInv'
  <1> DEFINE m == Head(outbox)
  <1>t. ServiceInv /\ ServiceTypeOK /\ PageInv
    BY DEF AppInv, ServiceInv, BuildInv, TypeInv
  <1>d. /\ Dispatched
        /\ UNCHANGED <<pc, outcome, asked>>
        /\ IF page = "build" /\ m.event \in Listened
             THEN ShowProgress(m) \/ ShowComplete(m) \/ ShowError(m)
             ELSE UNCHANGED <<page, isBuilding, buildProgress, buildResult>>
    BY DEF DispatchMessage, buildVars
  <1>h. m.event \in Listened => /\ m.build \in Starts
                                /\ Outstanding(m.build)
                                /\ m.build # NoBuild
                                /\ m.event = "build:progress" => m.stage \in ProgressStages
                                /\ m.event = "build:complete" => outcome[m.build] = "complete"
    <2>1. 1 \in 1 .. Len(outbox) /\ m = outbox[1]
      BY <1>t, <1>d, DispatchedTail
    <2>2. QED BY <2>1, <1>t, ServiceAssumption DEF PageInv, HeardIsOutstanding
  <1>o. \A d \in Starts : /\ OutstandingNext(d) => Outstanding(d)
                          /\ Terminal(m) /\ m.build = d => ~OutstandingNext(d)
                          /\ Outstanding(d) => \/ OutstandingNext(d)
                                               \/ Terminal(m) /\ m.build = d
    BY <1>t, <1>d, DispatchedOutstanding
  <1>i. \A d \in Starts : Outstanding(d) => /\ asked = d /\ buildResult = NoBuild
                                            /\ buildProgress \in ProgressStages
    BY <1>t DEF PageInv, OutstandingIsAsked
  <1> HIDE DEF m
  <1>1. HeardIsOutstanding'
    BY <1>t, <1>d, DispatchedHeard DEF PageInv
  <1>n. ASSUME \A d \in Starts : OutstandingNext(d) => /\ asked' = d /\ buildResult' = NoBuild
                                                       /\ buildProgress' \in ProgressStages,
               ResultIsShown',
               isBuilding' => /\ page' = "build" /\ asked' # NoBuild
                              /\ OutstandingNext(asked') \/ outcome'[asked'] = "threw"
        PROVE  PageInv'
    BY <1>1, <1>n DEF PageInv, OutstandingIsAsked, SpinnerOnPage, Outstanding, OutstandingNext,
                      Terminal, ProgressStages
  <1>s. isBuilding => /\ page = "build" /\ asked \in Starts
                      /\ Outstanding(asked) \/ outcome[asked] = "threw"
    BY <1>t DEF PageInv, SpinnerOnPage, AppInv, AppTypeOK
  <1>2. CASE ~(page = "build" /\ m.event \in Listened)
    <2>1. UNCHANGED <<page, isBuilding, buildProgress, buildResult, asked, outcome>>
      BY <1>2, <1>d
    <2>2. isBuilding => ~Terminal(m)
      BY <1>2, <1>s DEF Terminal, Listened
    <2>3. ResultIsShown'
      BY <2>1, <1>t DEF PageInv, ResultIsShown
    <2>4. QED BY <2>1, <2>2, <2>3, <1>o, <1>i, <1>s, <1>n, ServiceAssumption
  <1>3. CASE page = "build" /\ m.event = "build:progress"
    <2>1. /\ buildProgress' = m.stage /\ m.stage \in ProgressStages /\ ~Terminal(m)
          /\ UNCHANGED <<page, isBuilding, buildResult, asked, outcome>>
      BY <1>3, <1>d, <1>h DEF ShowProgress, ShowComplete, ShowError, Listened, Terminal,
                              TerminalEvents
    <2>2. ResultIsShown'
      BY <2>1, <1>t DEF PageInv, ResultIsShown
    <2>3. QED BY <2>1, <2>2, <1>o, <1>i, <1>s, <1>n, ServiceAssumption
  <1>4. CASE page = "build" /\ m.event \in TerminalEvents
    <2>1. /\ m.event \in Listened /\ Terminal(m) /\ m.build \in Starts /\ asked = m.build
          /\ buildProgress \in ProgressStages /\ buildResult = NoBuild
          /\ m.event = "build:complete" => outcome[asked] = "complete"
      BY <1>4, <1>h, <1>i DEF Listened, Terminal
    <2>2. \A d \in Starts : ~OutstandingNext(d)
      BY <2>1, <1>o, <1>i
    <2>3. CASE m.event = "build:complete"
      <3>1. /\ ~isBuilding' /\ buildResult' = asked /\ buildProgress' = buildProgress
            /\ UNCHANGED <<asked, outcome>>
        BY <2>1, <2>3, <1>4, <1>d DEF ShowProgress, ShowComplete, ShowError
      <3>2. ResultIsShown'
        BY <3>1, <2>1, <2>3 DEF ResultIsShown, ProgressStages
      <3>3. QED BY <3>1, <3>2, <2>2, <1>n
    <2>4. CASE m.event = "build:error"
      <3>1. ~isBuilding' /\ buildResult' = NoBuild
        BY <2>1, <2>4, <1>4, <1>d DEF ShowProgress, ShowComplete, ShowError
      <3>2. ResultIsShown'
        BY <3>1 DEF ResultIsShown
      <3>3. QED BY <3>1, <3>2, <2>2, <1>n
    <2>5. QED BY <1>4, <2>3, <2>4 DEF TerminalEvents
  <1>5. QED BY <1>2, <1>3, <1>4 DEF Listened

LEMMA PageInvStep ==
    ASSUME AppInv, [AppNext]_vars
    PROVE  PageInv'
  <1>1. CASE Service /\ UNCHANGED uiVars
    BY <1>1, ServicePage
  <1>2. CASE User
    <2>1. ASSUME NEW b \in Starts, ClickStart(b) \/ ClickRetry(b)
          PROVE  PageInv'
      BY <2>1, StartPage DEF ClickStart, ClickRetry
    <2>2. QED BY <1>2, <2>1, IdlePage DEF User
  <1>3. CASE DispatchMessage
    BY <1>3, DispatchPage
  <1>4. CASE UNCHANGED vars
    BY <1>4 DEF vars, serviceVars, buildVars, uiVars, pageVars, contextVars, AppInv, PageInv,
                HeardIsOutstanding, OutstandingIsAsked, ResultIsShown, SpinnerOnPage, Outstanding,
                Terminal
  <1>5. QED BY <1>1, <1>2, <1>3, <1>4 DEF AppNext

-----------------------------------------------------------------------------
(* Who cancels.                                                            *)

\* What is in buildCts stays accepted, and what replaces it is accepted as well.
LEMMA SlotIsAcceptedStep ==
    ASSUME AppInv, [AppNext]_vars
    PROVE  SlotIsAccepted'
  <1>t. /\ AppTypeOK /\ SlotIsAccepted
        /\ pc \in [Starts -> Stages] /\ buildCts \in Starts \cup {NoBuild}
    BY DEF AppInv, AppTypeOK, ServiceTypeOK
  <1>n. [Next]_serviceVars
    BY <1>t, AppIsService
  <1>q. ASSUME buildCts' = buildCts,
               \A d \in Starts : Accepted(d) => pc'[d] \notin {"idle", "posted", "acked"}
        PROVE  SlotIsAccepted'
    BY <1>q, <1>t DEF SlotIsAccepted, Accepted
  <1>1. ASSUME NEW b \in Starts, HandleStart(b)
        PROVE  SlotIsAccepted'
    <2>1. CASE LockStart(b)
      BY <2>1, <1>t DEF LockStart, GoTo, SlotIsAccepted, Accepted
    <2>2. CASE AckStart(b) \/ RefuseStart(b) \/ StartThrows(b) \/ SpawnBuild(b)
      BY <2>2, <1>t, <1>q DEF AckStart, RefuseStart, StartThrows, SpawnBuild, GoTo, Accepted,
                              handlerVars
    <2>3. QED BY <1>1, <2>1, <2>2 DEF HandleStart
  <1>2. ASSUME NEW b \in Starts, Build(b)
        PROVE  SlotIsAccepted'
    BY <1>2, <1>t, <1>q
    DEF Build, MakeFolders, DownloadOpenCore, KextLoopCancelled, StartKext, FinishKext,
        KextsReady, GenerateConfig, GenerateUsbMap, PackageZip, StageThrows, ReportOutcome,
        Advance, GoTo, Accepted, handlerVars
  <1>3. ASSUME NEW c \in Cancels, HandleCancel(c)
        PROVE  SlotIsAccepted'
    BY <1>3, <1>q DEF HandleCancel, LockCancel, AnswerCancel, SlotIsAccepted, buildVars, Accepted
  <1>4. CASE Client
    BY <1>4, <1>t, <1>q DEF Client, PostStart, PostCancel, GoTo, Accepted, handlerVars, buildVars
  <1>5. CASE UNCHANGED serviceVars
    BY <1>5, <1>q DEF serviceVars, handlerVars, buildVars, Accepted
  <1>6. QED BY <1>1, <1>2, <1>3, <1>4, <1>5, <1>n DEF Next, Service

\* While b is about to take the lock it is outstanding, so no other build is: the
\* one found in buildCts, which is not b, is over.
LEMMA SupersededIsOver ==
    ASSUME AppInv, NEW b \in Starts, LockStart(b), buildCts # NoBuild
    PROVE  pc[buildCts] = "over"
  <1>1. buildCts \in Starts /\ Accepted(buildCts)
    BY DEF AppInv, AppTypeOK, ServiceTypeOK, SlotIsAccepted
  <1>2. pc[b] = "acked" /\ buildCts # b
    BY <1>1 DEF LockStart, GoTo, Accepted
  <1>3. Outstanding(b)
    BY <1>2 DEF Outstanding
  <1>4. ~Outstanding(buildCts)
    BY <1>1, <1>2, <1>3 DEF AppInv, PageInv, OutstandingIsAsked
  <1>5. QED BY <1>1, <1>4 DEF Outstanding, Accepted

\* Only the two handlers that take the lock cancel a token source.
LEMMA OnlyUserCancelsStep ==
    ASSUME AppInv, [AppNext]_vars,
           NEW b \in Starts, b \in cancelled' \ cancelled, pc[b] # "over"
    PROVE  \E c \in Cancels : LockCancel(c)
  <1>n. [Next]_serviceVars
    BY AppIsService DEF AppInv
  <1>1. ASSUME NEW d \in Starts, HandleStart(d)
        PROVE  FALSE
    <2>1. CASE LockStart(d)
      <3>1. cancelled' = cancelled \cup ({buildCts} \ {NoBuild})
        BY <2>1 DEF LockStart
      <3>2. QED BY <2>1, <3>1, SupersededIsOver
    <2>2. CASE AckStart(d) \/ RefuseStart(d) \/ StartThrows(d) \/ SpawnBuild(d)
      BY <2>2 DEF AckStart, RefuseStart, StartThrows, SpawnBuild, handlerVars
    <2>3. QED BY <1>1, <2>1, <2>2 DEF HandleStart
  <1>2. ASSUME NEW d \in Starts, Build(d)
        PROVE  FALSE
    BY <1>2 DEF Build, MakeFolders, DownloadOpenCore, KextLoopCancelled, StartKext, FinishKext,
                KextsReady, GenerateConfig, GenerateUsbMap, PackageZip, StageThrows,
                ReportOutcome, Advance, handlerVars
  <1>3. ASSUME NEW c \in Cancels, HandleCancel(c)
        PROVE  LockCancel(c)
    BY <1>3 DEF HandleCancel, AnswerCancel
  <1>4. CASE Client \/ UNCHANGED serviceVars
    BY <1>4 DEF Client, handlerVars, serviceVars
  <1>5. QED BY <1>1, <1>2, <1>3, <1>4, <1>n DEF Next, Service

-----------------------------------------------------------------------------
(* The invariant, and what follows from it.                                *)

LEMMA AppTypeStep ==
    ASSUME AppInv, [AppNext]_vars
    PROVE  AppTypeOK'
  <1>t. AppTypeOK /\ ServiceTypeOK /\ TypeInv
    BY DEF AppInv, ServiceInv, BuildInv, AppTypeOK
  <1>s. ServiceTypeOK'
    BY <1>t, AppIsService, TypeInvStep DEF TypeInv
  <1> USE DEF AppTypeOK
  <1>1. CASE Service /\ UNCHANGED uiVars
    BY <1>1, <1>s, <1>t DEF uiVars, pageVars, contextVars
  <1>2. CASE User
    BY <1>2, <1>s, <1>t DEF User, Configure, Navigate, ClickStart, ClickRetry, StartBuild,
                            ClickCancel, NewBuild, pageVars, contextVars, Pages, ProgressStages
  <1>3. CASE DispatchMessage
    <2>1. Head(outbox).event \in Listened =>
              /\ Head(outbox).build \in Starts
              /\ Head(outbox).event = "build:progress" => Head(outbox).stage \in ProgressStages
      <3>1. 1 \in 1 .. Len(outbox) /\ Head(outbox) = outbox[1]
        BY <1>3, <1>t, DispatchedTail DEF DispatchMessage
      <3>2. QED BY <3>1 DEF AppInv, PageInv, HeardIsOutstanding
    <2>2. QED BY <1>3, <2>1, <1>s, <1>t DEF DispatchMessage, ShowProgress, ShowComplete, ShowError,
                                            Pages
  <1>4. CASE UNCHANGED vars
    BY <1>4, <1>s, <1>t DEF vars, uiVars, pageVars, contextVars
  <1>5. QED BY <1>1, <1>2, <1>3, <1>4 DEF AppNext

LEMMA AppInvStep ==
    ASSUME AppInv, [AppNext]_vars
    PROVE  AppInv'
  <1>1. [Next]_serviceVars
    BY AppIsService DEF AppInv
  <1>2. ServiceInv'
    BY <1>1, BuildInvStep, OrderInvStep DEF AppInv, ServiceInv
  <1>3. QED BY <1>2, AppTypeStep, PageInvStep, SlotIsAcceptedStep DEF AppInv

LEMMA AppInvariant == AppSpec => []AppInv
  <1>1. AppInv /\ [AppNext]_vars => AppInv'
    BY AppInvStep
  <1>2. QED BY InitAppInv, <1>1, PTL DEF AppSpec

\* Every variable of the pages keeps to its type: a result on screen is that of a
\* build, and the stage shown is one BuildPage.tsx knows (BuildPage.tsx:45-63).
THEOREM AppTypeCorrect == AppSpec => []AppTypeOK
  <1>1. AppInv => AppTypeOK
    BY DEF AppInv
  <1>2. QED BY <1>1, AppInvariant, PTL

\* The page never has two builds outstanding, however the user navigates, cancels,
\* retries and starts over (BuildPage.tsx:105, 141, 161-167, 239).
THEOREM OneBuildOutstandingHolds == AppSpec => []OneBuildOutstanding
  <1>1. AppInv => OneBuildOutstanding
    BY DEF AppInv, PageInv, OutstandingIsAsked, OneBuildOutstanding
  <1>2. QED BY <1>1, AppInvariant, PTL

\* A build shown as running is the one asked for last and is outstanding, or its
\* handler threw (BuildPage.tsx:43-83).
THEOREM SpinnerHasBuildHolds == AppSpec => []SpinnerHasBuild
  <1>1. AppInv => SpinnerHasBuild
    BY DEF AppInv, PageInv, SpinnerOnPage, SpinnerHasBuild
  <1>2. QED BY <1>1, AppInvariant, PTL

\* No build:start cancels a build that is not over, though each cancels what it
\* finds in buildCts (HandlersSetup.cs:312): only build:cancel does.
THEOREM OnlyUserCancelsHolds == AppSpec => OnlyUserCancels
  <1>1. AppInv /\ [AppNext]_vars =>
          [\A b \in Starts : b \in cancelled' \ cancelled /\ pc[b] # "over"
                                => \E c \in Cancels : LockCancel(c)]_vars
    BY OnlyUserCancelsStep
  <1>2. QED BY <1>1, AppInvariant, PTL DEF AppSpec, OnlyUserCancels

\* A result on screen is that of the build asked for last, and was written.
THEOREM ResultIsOfAskedBuildHolds == AppSpec => []ResultIsOfAskedBuild
  <1>1. AppInv => ResultIsOfAskedBuild
    BY DEF AppInv, PageInv, ResultIsShown, ResultIsOfAskedBuild
  <1>2. QED BY <1>1, AppInvariant, PTL
=============================================================================
