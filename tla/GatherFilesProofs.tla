------------------------- MODULE GatherFilesProofs -------------------------
(***************************************************************************)
(* Theorems about gathering for any kexts, any parts and any number of     *)
(* releases.                                                               *)
(***************************************************************************)
EXTENDS GatherFiles, SequenceTheorems, TLAPS

\* The steps that a product to be downloaded goes through.
Working == {"download", "wipe", "move", "manifest", "record", "history"}

\* A manifest is only ever written over a whole release.
ManifestInv ==
    \A p \in Products :
        manifest[p].state = "written" => \E r \in Releases : manifest[p].lists = Release(r)

\* What each step knows of the folder it works on.
StepInv ==
    /\ pc \in Working => queue # <<>> /\ database[Product] # NoRelease
    /\ pc \in Working \ {"download"} => Product \in fetched
    /\ pc = "move" => /\ manifest[Product] = NoManifest
                      /\ files[Product] \subseteq Release(database[Product])
    /\ pc = "manifest" => manifest[Product] = CutManifest
    /\ pc \in {"manifest", "record", "history"} => files[Product] = Release(database[Product])

\* What has been looked at is whole, but for the product being worked on; what is
\* wanted has been looked at or is still in the queue.
SeenInv ==
    /\ pc \in {"menu", "database"} => seen = {}
    /\ pc \in {"next", "gathered"} => \A p \in seen : IsWhole(p)
    /\ pc \in Working => /\ Product \in seen
                         /\ \A p \in seen : p = Product \/ IsWhole(p)
    /\ pc \in Working \cup {"next", "gathered"} =>
           \A p \in wanted : \/ database[p] = NoRelease
                             \/ p \in seen
                             \/ \E i \in 1..Len(queue) : queue[i] = p
    /\ pc = "gathered" => queue = <<>>

GatherInv == GatherTypeOK /\ ManifestInv /\ StepInv /\ SeenInv

-----------------------------------------------------------------------------
\* The program works on a product while its queue is not empty, and moving on
\* leaves the other products in the queue.
LEMMA CurrentProduct ==
    ASSUME GatherTypeOK, queue # <<>>
    PROVE  /\ Product \in Products
           /\ Tail(queue) \in Seq(Products)
           /\ \A p \in Products : (\E i \in 1..Len(queue) : queue[i] = p)
                  => p = Product \/ \E i \in 1..Len(Tail(queue)) : Tail(queue)[i] = p
  <1>1. queue \in Seq(Products)
    BY DEF GatherTypeOK
  <1>2. Product \in Products /\ Product = queue[1]
    BY <1>1 DEF Product
  <1>3. /\ Tail(queue) \in Seq(Products)
        /\ Len(Tail(queue)) = Len(queue) - 1
        /\ \A i \in 1..Len(Tail(queue)) : Tail(queue)[i] = queue[i + 1]
    BY <1>1, HeadTailProperties
  <1>4. ASSUME NEW p \in Products, NEW i \in 1..Len(queue), queue[i] = p, p # Product
        PROVE  \E j \in 1..Len(Tail(queue)) : Tail(queue)[j] = p
    <2>1. i - 1 \in 1..Len(Tail(queue)) /\ Tail(queue)[i - 1] = queue[i]
      BY <1>1, <1>2, <1>3, <1>4
    <2>2. QED BY <2>1, <1>4
  <1>5. QED BY <1>2, <1>3, <1>4

\* The queue of a gathering holds every product.
LEMMA WholeQueue ==
    /\ Append(Kexts, OpenCorePkg) \in Seq(Products)
    /\ \A p \in Products : \E i \in 1..Len(Append(Kexts, OpenCorePkg)) :
                               Append(Kexts, OpenCorePkg)[i] = p
  <1>1. Kexts \in Seq(Products) /\ OpenCorePkg \in Products
    BY GatherAssumption DEF Products
  <1>2. Append(Kexts, OpenCorePkg) \in Seq(Products)
    BY <1>1
  <1>3. /\ Len(Append(Kexts, OpenCorePkg)) = Len(Kexts) + 1
        /\ \A i \in 1..Len(Kexts) : Append(Kexts, OpenCorePkg)[i] = Kexts[i]
        /\ Append(Kexts, OpenCorePkg)[Len(Kexts) + 1] = OpenCorePkg
    BY <1>1, AppendProperties
  <1>4. Len(Kexts) \in Nat
    BY <1>1
  <1>5. ASSUME NEW p \in Products
        PROVE  \E i \in 1..Len(Append(Kexts, OpenCorePkg)) : Append(Kexts, OpenCorePkg)[i] = p
    <2>1. CASE p = OpenCorePkg
      BY <2>1, <1>3, <1>4
    <2>2. CASE p \in KextProducts
      <3>1. PICK i \in 1..Len(Kexts) : Kexts[i] = p
        BY <2>2 DEF KextProducts
      <3>2. i \in 1..Len(Append(Kexts, OpenCorePkg))
        BY <1>3, <1>4
      <3>3. QED BY <3>1, <3>2, <1>3
    <2>3. QED BY <2>1, <2>2 DEF Products
  <1>6. QED BY <1>2, <1>5

LEMMA NoReleaseIsNone == NoRelease \notin Releases /\ 1 \in Releases
  BY GatherAssumption DEF NoRelease, Releases

LEMMA ReleaseIsContents ==
    ASSUME NEW r \in Releases
    PROVE  Release(r) \in Contents
  BY DEF Release, Contents

LEMMA GatherInit == Init => GatherInv
  <1> SUFFICES ASSUME Init PROVE GatherInv
    OBVIOUS
  <1>1. GatherTypeOK
    <2>1. manifest \in [Products -> Manifests] /\ files \in [Products -> Contents]
      BY DEF Init, Contents, Manifests, NoManifest
    <2>2. /\ latest \in [Products -> Releases]
          /\ history \in Recorded /\ known \in Recorded /\ database \in Recorded
      BY NoReleaseIsNone DEF Init, Recorded
    <2>3. cut \in BOOLEAN /\ pc \in Places
      BY DEF Init, Places
    <2>4. queue \in Seq(Products)
      BY DEF Init
    <2>5. QED BY <2>1, <2>2, <2>3, <2>4 DEF Init, GatherTypeOK
  <1>2. ManifestInv
    BY DEF Init, ManifestInv, NoManifest
  <1>3. StepInv /\ SeenInv
    BY DEF Init, StepInv, SeenInv, Working
  <1>4. QED BY <1>1, <1>2, <1>3 DEF GatherInv

-----------------------------------------------------------------------------
(* Type correctness.                                                       *)

LEMMA TypeStep == GatherTypeOK /\ StepInv /\ [Next]_vars => GatherTypeOK'
  <1> SUFFICES ASSUME GatherTypeOK, StepInv, [Next]_vars PROVE GatherTypeOK'
    OBVIOUS
  <1>1. CASE UNCHANGED vars
    BY <1>1 DEF vars, disk, memory, GatherTypeOK
  <1>2. ASSUME NEW p \in Products, Publish(p) PROVE GatherTypeOK'
    <2>1. latest'[p] \in Releases /\ latest' \in [Products -> Releases]
      BY <1>2, GatherAssumption DEF Publish, GatherTypeOK, Releases
    <2>2. QED BY <1>2, <2>1 DEF Publish, GatherTypeOK, disk, memory
  <1>3. ASSUME NEW p \in Products, NEW part, Damage(p, part) PROVE GatherTypeOK'
    BY <1>3 DEF Damage, GatherTypeOK, Contents, memory
  <1>4. CASE ReadHistory
    BY <1>4 DEF ReadHistory, GatherTypeOK, disk, Places
  <1>5. ASSUME NEW checked \in SUBSET KextProducts, NEW found \in SUBSET checked,
               UpdateDatabase(checked, found)
        PROVE  GatherTypeOK'
    <2>1. database' \in Recorded /\ known' \in Recorded
      BY <1>5 DEF UpdateDatabase, GatherTypeOK, Recorded
    <2>2. wanted' \subseteq Products /\ queue' \in Seq(Products)
      BY <1>5, WholeQueue DEF UpdateDatabase, Products
    <2>3. QED BY <1>5, <2>1, <2>2 DEF UpdateDatabase, GatherTypeOK, disk, Go, Places
  <1>6. CASE SkipProduct
    BY <1>6, CurrentProduct DEF SkipProduct, GatherTypeOK, disk
  <1>7. CASE CheckRecorded
    BY <1>7, CurrentProduct DEF CheckRecorded, GatherTypeOK, disk, Places
  <1>8. CASE NotRecorded
    BY <1>8, CurrentProduct DEF NotRecorded, GatherTypeOK, disk, Go, Places
  <1>9. CASE Downloaded
    BY <1>9, CurrentProduct DEF Downloaded, StepInv, Working, GatherTypeOK, disk, Go, Places
  <1>10. CASE DownloadFails
    BY <1>10, CurrentProduct DEF DownloadFails, StepInv, Working, GatherTypeOK, disk, Places
  <1>11. ASSUME NEW part \in Parts \X Releases, WipePart(part) PROVE GatherTypeOK'
    BY <1>11 DEF WipePart, GatherTypeOK, memory, Contents
  <1>12. ASSUME NEW part \in Parts \X Releases, MovePart(part) PROVE GatherTypeOK'
    BY <1>12 DEF MovePart, GatherTypeOK, memory, Contents
  <1>13. CASE WipeManifest
    BY <1>13 DEF WipeManifest, GatherTypeOK, memory, Manifests, NoManifest, Contents
  <1>14. CASE Wiped
    BY <1>14 DEF Wiped, GatherTypeOK, disk, memory, Go, Places
  <1>15. CASE NoOcBinaryData
    BY <1>15 DEF NoOcBinaryData, GatherTypeOK, disk, memory, Go, Places
  <1>16. CASE OpenManifest
    BY <1>16 DEF OpenManifest, GatherTypeOK, memory, Go, Places, Manifests, CutManifest, Contents
  <1>17. CASE WriteManifest
    BY <1>17 DEF WriteManifest, GatherTypeOK, memory, Go, Places, Manifests, Manifest
  <1>18. CASE OpenHistory
    BY <1>18 DEF OpenHistory, GatherTypeOK, Recorded, Go, Places
  <1>19. CASE WriteHistory
    <2>1. queue' \in Seq(Products)
      BY <1>19, CurrentProduct DEF WriteHistory, StepInv, Working, Go
    <2>2. QED BY <1>19, <2>1 DEF WriteHistory, GatherTypeOK, Go, Places
  <1>20. CASE Gathered
    BY <1>20 DEF Gathered, GatherTypeOK, disk, memory, Go, Places
  <1>21. CASE Build \/ ReportError \/ Abandon
    <2>1. Forget /\ pc' = "menu" /\ UNCHANGED <<latest, disk>>
      BY <1>21 DEF Build, ReportError, Abandon
    <2>2. QED BY <2>1, NoReleaseIsNone DEF Forget, GatherTypeOK, disk, Recorded, Places
  <1>22. CASE Gather
    BY <1>22, <1>4, <1>5, <1>6, <1>7, <1>8, <1>9, <1>10, <1>11, <1>12, <1>13, <1>14,
       <1>15, <1>16, <1>17, <1>18, <1>19, <1>20, <1>21
    DEF Gather
  <1>23. CASE Environment
    BY <1>23, <1>2, <1>3, <1>21 DEF Environment
  <1>24. QED BY <1>1, <1>22, <1>23 DEF Next

-----------------------------------------------------------------------------
(* What the folders hold.                                                  *)

\* A manifest is written in one step only, where the folder is a whole release.
LEMMA ManifestStep == GatherTypeOK /\ ManifestInv /\ StepInv /\ [Next]_vars => ManifestInv'
  <1> SUFFICES ASSUME GatherTypeOK, ManifestInv, StepInv, [Next]_vars PROVE ManifestInv'
    OBVIOUS
  <1>1. CASE UNCHANGED manifest
    BY <1>1 DEF ManifestInv
  <1>2. CASE WipeManifest
    BY <1>2 DEF WipeManifest, ManifestInv, GatherTypeOK, NoManifest
  <1>3. CASE OpenManifest
    BY <1>3 DEF OpenManifest, ManifestInv, GatherTypeOK, CutManifest
  <1>4. CASE WriteManifest
    <2>1. Product \in Products /\ database[Product] \in Releases
      BY <1>4, CurrentProduct DEF WriteManifest, Go, StepInv, Working, GatherTypeOK, Recorded
    <2>2. manifest'[Product].state = "written" => manifest'[Product].lists = Release(database[Product])
      BY <1>4, <2>1 DEF WriteManifest, Go, StepInv, GatherTypeOK, Manifest
    <2>3. \A p \in Products \ {Product} : manifest'[p] = manifest[p]
      BY <1>4 DEF WriteManifest, GatherTypeOK
    <2>4. QED BY <2>1, <2>2, <2>3 DEF ManifestInv
  <1>5. QED
    BY <1>1, <1>2, <1>3, <1>4
    DEF Next, Gather, Environment, vars, disk, memory, Publish, Damage, ReadHistory,
        UpdateDatabase, SkipProduct, CheckRecorded, NotRecorded, Downloaded, DownloadFails,
        WipePart, MovePart, Wiped, NoOcBinaryData, OpenHistory, WriteHistory, Gathered,
        Build, ReportError, Abandon

LEMMA StepStep == GatherTypeOK /\ StepInv /\ [Next]_vars => StepInv'
  <1> SUFFICES ASSUME GatherTypeOK, StepInv, [Next]_vars PROVE StepInv'
    OBVIOUS
  <1>1. CASE UNCHANGED <<files, manifest, pc, queue, database, fetched>>
    BY <1>1 DEF StepInv, Working, Product
  <1>2. ASSUME pc' \notin Working PROVE StepInv'
    BY <1>2 DEF StepInv, Working
  <1>3. CASE CheckRecorded \/ NotRecorded
    BY <1>2, <1>3
    DEF CheckRecorded, NotRecorded, ToGather, StepInv, Working, Product, Go, disk
  <1>4. CASE Downloaded
    BY <1>4 DEF Downloaded, StepInv, Working, Product, Go, disk
  <1>5. ASSUME NEW part \in Parts \X Releases, WipePart(part) PROVE StepInv'
    BY <1>5 DEF WipePart, StepInv, Working, Product, memory
  <1>6. CASE WipeManifest
    BY <1>6 DEF WipeManifest, StepInv, Working, Product, memory
  <1>7. CASE Wiped
    BY <1>7 DEF Wiped, StepInv, Working, Product, Go, disk, memory
  <1>8. ASSUME NEW part \in Parts \X Releases, MovePart(part) PROVE StepInv'
    <2>1. Product \in Products /\ Product' = Product
      BY <1>8, CurrentProduct DEF MovePart, StepInv, Working, Product, memory
    <2>2. files'[Product] = files[Product] \cup {part}
      BY <1>8, <2>1 DEF MovePart, GatherTypeOK
    <2>3. QED BY <1>8, <2>1, <2>2 DEF MovePart, StepInv, Working, memory
  <1>9. CASE OpenManifest
    <2>1. Product \in Products /\ Product' = Product
      BY <1>9, CurrentProduct DEF OpenManifest, Go, StepInv, Working, Product, memory
    <2>2. manifest'[Product] = CutManifest
      BY <1>9, <2>1 DEF OpenManifest, GatherTypeOK
    <2>3. QED BY <1>9, <2>1, <2>2 DEF OpenManifest, Go, StepInv, Working, memory
  <1>10. CASE WriteManifest
    BY <1>10 DEF WriteManifest, Go, StepInv, Working, Product, memory
  <1>11. CASE OpenHistory
    BY <1>11 DEF OpenHistory, Go, StepInv, Working, Product
  <1>12. QED
    BY <1>1, <1>2, <1>3, <1>4, <1>5, <1>6, <1>7, <1>8, <1>9, <1>10, <1>11
    DEF Next, Gather, Environment, vars, disk, memory, Publish, Damage, ReadHistory,
        UpdateDatabase, SkipProduct, DownloadFails, NoOcBinaryData, WriteHistory,
        Gathered, Build, ReportError, Abandon, Go, Working

-----------------------------------------------------------------------------
(* What a gathering has looked at.                                         *)

\* The folder of a product holds a whole release if it verifies.
LEMMA VerifiedFolder ==
    ASSUME GatherTypeOK, ManifestInv, NEW p \in Products, Verified(p)
    PROVE  IsWhole(p)
  BY DEF GatherTypeOK, ManifestInv, Verified, Manifest, IsWhole

\* Moving on from a product that has been looked at, or need not be.
LEMMA NextProduct ==
    ASSUME GatherTypeOK, SeenInv, pc \in Working \cup {"next"}, queue # <<>>,
           pc' = "next", queue' = Tail(queue), seen \subseteq seen',
           UNCHANGED <<wanted, database>>,
           Product \in wanted => database[Product] = NoRelease \/ Product \in seen',
           \A p \in seen' : IsWhole(p)'
    PROVE  SeenInv'
  <1>1. ASSUME NEW p \in wanted
        PROVE  \/ database[p] = NoRelease
               \/ p \in seen'
               \/ \E i \in 1..Len(queue') : queue'[i] = p
    <2>1. p \in Products
      BY DEF GatherTypeOK
    <2>2. \/ database[p] = NoRelease
          \/ p \in seen
          \/ \E i \in 1..Len(queue) : queue[i] = p
      BY DEF SeenInv
    <2>3. QED BY <2>1, <2>2, CurrentProduct
  <1>2. QED BY <1>1 DEF SeenInv, Working

LEMMA SeenStep == GatherInv /\ [Next]_vars => SeenInv'
  <1> SUFFICES ASSUME GatherInv, [Next]_vars PROVE SeenInv'
    OBVIOUS
  <1> USE DEF GatherInv
  <1>1. CASE UNCHANGED <<files, pc, wanted, queue, database, seen>>
    BY <1>1 DEF SeenInv, IsWhole, Product
  <1>2. ASSUME NEW p \in Products, NEW part, Damage(p, part) PROVE SeenInv'
    BY <1>2 DEF Damage, SeenInv, Working, memory
  <1>3. CASE ReadHistory
    BY <1>3 DEF ReadHistory, SeenInv, Working
  <1>4. ASSUME NEW checked \in SUBSET KextProducts, NEW found \in SUBSET checked,
               UpdateDatabase(checked, found)
        PROVE  SeenInv'
    <2>1. wanted' \subseteq Products
      BY <1>4 DEF UpdateDatabase, Products
    <2>2. QED BY <1>4, <2>1, WholeQueue DEF UpdateDatabase, SeenInv, Working, Go
  <1>5. CASE SkipProduct
    <2>1. Product \in wanted => database[Product] = NoRelease \/ Product \in seen
      BY <1>5 DEF SkipProduct, ToGather
    <2>2. \A p \in seen' : IsWhole(p)'
      BY <1>5 DEF SkipProduct, SeenInv, IsWhole, disk
    <2>3. QED BY <1>5, <2>1, <2>2, NextProduct DEF SkipProduct
  <1>6. CASE CheckRecorded \/ NotRecorded
    <2>1. Product \in Products /\ seen' = seen \cup {Product} /\ pc = "next" /\ queue # <<>>
      BY <1>6, CurrentProduct DEF CheckRecorded, NotRecorded, Go
    <2>2. UNCHANGED <<files, wanted, database>>
      BY <1>6 DEF CheckRecorded, NotRecorded, disk
    <2>3. CASE pc' = "unreadable"
      BY <2>3 DEF SeenInv, Working
    <2>4. CASE pc' = "next" /\ Verified(Product) /\ queue' = Tail(queue)
      <3>1. \A p \in seen' : IsWhole(p)'
        BY <2>1, <2>2, <2>4, VerifiedFolder DEF SeenInv, IsWhole
      <3>2. QED BY <2>1, <2>2, <2>4, <3>1, NextProduct
    <2>5. CASE pc' = "download" /\ queue' = queue
      <3>1. Product' = Product
        BY <2>5 DEF Product
      <3>2. QED BY <2>1, <2>2, <2>5, <3>1 DEF SeenInv, Working, IsWhole
    <2>6. QED BY <1>6, <2>1, <2>3, <2>4, <2>5 DEF CheckRecorded, NotRecorded, Go
  <1>7. CASE Downloaded \/ Wiped \/ OpenManifest \/ WriteManifest \/ OpenHistory
    <2>1. /\ pc \in Working /\ pc' \in Working
          /\ UNCHANGED <<files, wanted, queue, database, seen>>
      BY <1>7
      DEF Downloaded, Wiped, OpenManifest, WriteManifest, OpenHistory, Go, Working, disk, memory
    <2>2. QED BY <2>1 DEF SeenInv, Working, IsWhole, Product
  <1>8. ASSUME NEW part \in Parts \X Releases, WipePart(part) \/ MovePart(part)
        PROVE  SeenInv'
    <2>1. /\ pc \in Working /\ pc' = pc
          /\ UNCHANGED <<wanted, queue, database, seen>>
          /\ \A p \in Products \ {Product} : files'[p] = files[p]
      BY <1>8 DEF WipePart, MovePart, Working, memory, GatherTypeOK
    <2>2. \A p \in seen : p = Product \/ IsWhole(p)'
      BY <2>1 DEF SeenInv, IsWhole, GatherTypeOK
    <2>3. QED BY <2>1, <2>2 DEF SeenInv, Working, Product
  <1>9. CASE DownloadFails
    <2>1. CASE pc' # "next"
      BY <1>9, <2>1 DEF DownloadFails, SeenInv, Working
    <2>2. CASE pc' = "next"
      <3>1. pc = "download" /\ queue # <<>> /\ Product \in Products /\ Verified(Product)
        BY <1>9, <2>2, CurrentProduct DEF DownloadFails, StepInv, Working
      <3>2. /\ UNCHANGED <<files, wanted, database, seen>>
            /\ queue' = Tail(queue)
        BY <1>9, <2>2 DEF DownloadFails, disk
      <3>3. IsWhole(Product)
        BY <3>1, VerifiedFolder
      <3>4. Product \in seen /\ \A p \in seen' : IsWhole(p)'
        BY <3>1, <3>2, <3>3 DEF SeenInv, Working, IsWhole
      <3>5. QED BY <2>2, <3>1, <3>2, <3>4, NextProduct DEF Working
    <2>3. QED BY <2>1, <2>2
  <1>10. CASE WriteHistory
    <2>1. /\ pc = "history" /\ pc' = "next" /\ queue # <<>> /\ Product \in Products
          /\ queue' = Tail(queue)
          /\ UNCHANGED <<files, wanted, database, seen>>
      BY <1>10, CurrentProduct DEF WriteHistory, StepInv, Working, Go
    <2>2. IsWhole(Product)
      BY <2>1 DEF StepInv, Working, IsWhole, GatherTypeOK, Recorded
    <2>3. \A p \in seen' : IsWhole(p)'
      BY <2>1, <2>2 DEF SeenInv, Working, IsWhole
    <2>4. Product \in seen
      BY <2>1 DEF SeenInv, Working
    <2>5. QED BY <2>1, <2>3, <2>4, NextProduct DEF Working
  <1>11. CASE Gathered
    BY <1>11 DEF Gathered, SeenInv, Working, IsWhole, Go, disk, memory
  <1>12. CASE NoOcBinaryData
    BY <1>12 DEF NoOcBinaryData, SeenInv, Working, Go
  <1>13. CASE Build \/ ReportError \/ Abandon
    <2>1. Forget /\ pc' = "menu"
      BY <1>13 DEF Build, ReportError, Abandon
    <2>2. QED BY <2>1 DEF Forget, SeenInv, Working
  <1>14. CASE Gather
    BY <1>14, <1>1, <1>3, <1>4, <1>5, <1>6, <1>7, <1>8, <1>9, <1>10, <1>11, <1>12, <1>13
    DEF Gather, WipeManifest, memory
  <1>15. CASE Environment
    BY <1>15, <1>1, <1>2, <1>13 DEF Environment, Publish, disk, memory
  <1>16. QED BY <1>1, <1>14, <1>15 DEF Next, vars, disk, memory

-----------------------------------------------------------------------------
\* GatherInv holds in every reachable state.
THEOREM GatherInvHolds == Spec => []GatherInv
  <1>1. Init => GatherInv
    BY GatherInit
  <1>2. GatherInv /\ [Next]_vars => GatherInv'
    BY TypeStep, ManifestStep, StepStep, SeenStep DEF GatherInv
  <1>3. QED BY <1>1, <1>2, PTL DEF Spec

\* The variables keep their types: gathering_files.py 141-148.
THEOREM GatherTypeCorrect == Spec => []GatherTypeOK
  BY GatherInvHolds, PTL DEF GatherInv

\* verify_folder_integrity accepts whole releases only, wherever the program is
\* killed.
THEOREM VerifiedIsWholeHolds == Spec => []VerifiedIsWhole
  <1>1. GatherInv => VerifiedIsWhole
    BY VerifiedFolder DEF GatherInv, VerifiedIsWhole
  <1>2. QED BY <1>1, GatherInvHolds, PTL

\* When gather_bootloader_kexts returns True, what is wanted and known is whole.
THEOREM GatheredIsWholeHolds == Spec => []GatheredIsWhole
  <1>1. GatherInv => GatheredIsWhole
    <2> SUFFICES ASSUME GatherInv, pc = "gathered", NEW p \in wanted, database[p] # NoRelease
                 PROVE  IsWhole(p)
      BY DEF GatheredIsWhole
    <2>1. p \in seen
      BY DEF GatherInv, SeenInv
    <2>2. QED BY <2>1 DEF GatherInv, SeenInv
  <1>2. QED BY <1>1, GatherInvHolds, PTL

\* While the program gathers, only the step that deletes what a finished download
\* replaces makes a folder stop verifying.
THEOREM ReplacedOnlyByDownloadHolds == Spec => ReplacedOnlyByDownload
  <1> DEFINE Kept == \A p \in Products :
                         (pc # "menu" /\ Verified(p) /\ ~ Verified(p)')
                             => p \in fetched
  <1>1. GatherInv /\ [Next]_vars => Kept
    <2> SUFFICES ASSUME GatherInv, [Next]_vars, NEW p \in Products,
                        pc # "menu", p \notin fetched,
                        Verified(p)
                 PROVE  Verified(p)'
      OBVIOUS
    <2>1. CASE UNCHANGED <<files, manifest>>
      BY <2>1 DEF Verified
    <2>2. ASSUME NEW part \in Parts \X Releases, WipePart(part) PROVE Verified(p)'
      BY <2>2 DEF WipePart, GatherInv, GatherTypeOK, StepInv, Working, Verified
    <2>3. CASE WipeManifest
      BY <2>3 DEF WipeManifest, GatherInv, GatherTypeOK, StepInv, Working, Verified
    <2>4. ASSUME NEW part \in Parts \X Releases, MovePart(part) PROVE Verified(p)'
      BY <2>4 DEF MovePart, GatherInv, GatherTypeOK, StepInv, Verified, NoManifest, Manifest
    <2>5. CASE OpenManifest
      BY <2>5 DEF OpenManifest, Go, GatherInv, GatherTypeOK, StepInv, Verified, NoManifest, Manifest
    <2>6. CASE WriteManifest
      BY <2>6 DEF WriteManifest, Go, GatherInv, GatherTypeOK, StepInv, Verified, CutManifest, Manifest
    <2>7. CASE Gather
      BY <2>7, <2>1, <2>2, <2>3, <2>4, <2>5, <2>6
      DEF Gather, ReadHistory, UpdateDatabase, SkipProduct, CheckRecorded, NotRecorded,
          Downloaded, DownloadFails, Wiped, NoOcBinaryData, OpenHistory, WriteHistory,
          Gathered, Build, ReportError, disk
    <2>8. CASE Environment
      BY <2>8, <2>1 DEF Environment, Publish, Damage, Abandon, disk
    <2>9. QED BY <2>1, <2>7, <2>8 DEF Next, vars, disk
  <1>2. GatherInv /\ [Next]_vars => [Kept]_vars
    BY <1>1
  <1>3. QED BY <1>2, GatherInvHolds, PTL DEF Spec, ReplacedOnlyByDownload
=============================================================================
