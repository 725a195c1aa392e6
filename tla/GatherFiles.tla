---------------------------- MODULE GatherFiles ----------------------------
(***************************************************************************)
(* Gathering of OpenCorePkg and of the checked kexts into OCK_Files by the *)
(* command-line program: `gather_bootloader_kexts`, the manifests of       *)
(* `IntegrityChecker` and the download history.  OCK_Files outlives the    *)
(* program, which may be killed between any two steps.                     *)
(*                                                                         *)
(* A product has the same Parts in each of its releases, and a release is  *)
(* its number.                                                             *)
(***************************************************************************)
EXTENDS Naturals, Sequences

CONSTANTS
    Kexts,       \* the products of the kexts, in the order of the dataset;
                 \* kexts that come in one archive have one product
    OpenCorePkg, \* the product gathered after all kexts
    Parts,       \* what a folder of OCK_Files holds besides its manifest
    MaxRelease   \* bound: releases of a product

KextProducts == {Kexts[i] : i \in 1..Len(Kexts)}

Products == KextProducts \cup {OpenCorePkg}

ASSUME GatherAssumption ==
    /\ Kexts \in Seq(KextProducts)
    /\ OpenCorePkg \notin KextProducts
    /\ Parts # {}
    /\ MaxRelease \in Nat \ {0}

VARIABLES
    latest,    \* the release of each product its publisher offers
    history,   \* history.json: the release recorded of each product, 0 for none
    cut,       \* its writing was cut short: it cannot be parsed
    files,     \* the parts in each folder of OCK_Files, each with its release
    manifest,  \* manifest.json of each folder
    pc,        \* where the program stands
    wanted,    \* products of the checked kexts, and OpenCorePkg
    queue,     \* products still to go through, the current one first
    known,     \* download_history, the program's copy of history.json
    database,  \* download_database: the release to get of each product
    seen,      \* seen_download_urls
    fetched,   \* products whose archive this gathering has downloaded
    said       \* products reported as "already downloaded" in this gathering

disk == <<history, cut, files, manifest>>
memory == <<wanted, queue, known, database, seen, fetched, said>>
vars == <<latest, disk, pc, memory>>

Releases == 1..MaxRelease
NoRelease == 0
Recorded == [Products -> Releases \cup {NoRelease}]
Contents == SUBSET (Parts \X Releases)

\* A manifest that is "cut" cannot be parsed.
Manifests == [state : {"absent", "cut", "written"}, lists : Contents]
NoManifest == [state |-> "absent", lists |-> {}]
CutManifest == [state |-> "cut", lists |-> {}]
Manifest(parts) == [state |-> "written", lists |-> parts]

\* The parts of a whole release.
Release(r) == Parts \X {r}

\* verify_folder_integrity: nothing modified, missing or untracked.
Verified(p) == manifest[p] = Manifest(files[p])

Product == Head(queue)

ToGather(p) == p \in wanted /\ database[p] # NoRelease /\ p \notin seen

Go(from, to) == pc = from /\ pc' = to

\* What ends a gathering: the program's copies go, the disk stays.
Forget ==
    /\ wanted' = {}
    /\ queue' = <<>>
    /\ known' = [p \in Products |-> NoRelease]
    /\ database' = [p \in Products |-> NoRelease]
    /\ seen' = {}
    /\ fetched' = {}
    /\ said' = {}

Init ==
    /\ latest = [p \in Products |-> 1]
    /\ history = [p \in Products |-> NoRelease]
    /\ cut = FALSE
    /\ files = [p \in Products |-> {}]
    /\ manifest = [p \in Products |-> NoManifest]
    /\ pc = "menu"
    /\ wanted = {}
    /\ queue = <<>>
    /\ known = [p \in Products |-> NoRelease]
    /\ database = [p \in Products |-> NoRelease]
    /\ seen = {}
    /\ fetched = {}
    /\ said = {}

-----------------------------------------------------------------------------
\* A product's publisher offers a newer release.
Publish(p) ==
    /\ latest[p] < MaxRelease
    /\ latest' = [latest EXCEPT ![p] = @ + 1]
    /\ UNCHANGED <<disk, pc, memory>>

\* Somebody deletes a part of a folder while the program asks for an option.
Damage(p, part) ==
    /\ pc = "menu"
    /\ part \in files[p]
    /\ files' = [files EXCEPT ![p] = @ \ {part}]
    /\ UNCHANGED <<latest, history, cut, manifest, pc, memory>>

\* Option 6 reads the history; json.load raises if it was cut short.
ReadHistory ==
    /\ pc = "menu"
    /\ IF cut
       THEN pc' = "unreadable" /\ UNCHANGED known
       ELSE pc' = "database" /\ known' = history
    /\ UNCHANGED <<latest, disk, wanted, queue, database, seen, fetched, said>>

\* update_download_database: `found` are the checked products the indexes still
\* list.  The database starts as a copy of the LIST known, so the items of both
\* are the same dictionaries, and updating one here updates the other.
UpdateDatabase(checked, found) ==
    /\ Go("database", "next")
    /\ LET offered(p) == p \in found \cup {OpenCorePkg}
           release(p) == IF offered(p) THEN latest[p] ELSE known[p]
       IN  /\ database' = [p \in Products |-> release(p)]
           /\ known' = [p \in Products |->
                           IF known[p] = NoRelease THEN NoRelease ELSE release(p)]
    /\ wanted' = checked \cup {OpenCorePkg}
    /\ queue' = Append(Kexts, OpenCorePkg)
    /\ UNCHANGED <<latest, disk, seen, fetched, said>>

\* `continue`: the kext is not checked, no release of the product is known, or
\* its archive was met.
SkipProduct ==
    /\ pc = "next" /\ queue # <<>>
    /\ ~ ToGather(Product)
    /\ queue' = Tail(queue)
    /\ UNCHANGED <<latest, disk, pc, wanted, known, database, seen, fetched, said>>

\* The product is recorded: compare the releases and verify its folder.
CheckRecorded ==
    /\ pc = "next" /\ queue # <<>>
    /\ ToGather(Product)
    /\ seen' = seen \cup {Product}
    /\ known[Product] # NoRelease
    /\ \/ /\ manifest[Product] = CutManifest
          /\ pc' = "unreadable"
          /\ UNCHANGED <<queue, said>>
       \/ /\ manifest[Product] # CutManifest
          /\ database[Product] = known[Product] /\ Verified(Product)
          /\ said' = said \cup {Product}
          /\ queue' = Tail(queue)
          /\ UNCHANGED pc
       \/ /\ manifest[Product] # CutManifest
          /\ ~ (database[Product] = known[Product] /\ Verified(Product))
          /\ pc' = "download"
          /\ UNCHANGED <<queue, said>>
    /\ UNCHANGED <<latest, disk, wanted, known, database, fetched>>

\* Variant: what is not recorded is cleared before it is downloaded.
NotRecordedWipes ==
    /\ Go("next", "wipe") /\ queue # <<>>
    /\ ToGather(Product)
    /\ seen' = seen \cup {Product}
    /\ known[Product] = NoRelease
    /\ UNCHANGED <<latest, disk, wanted, queue, known, database, fetched, said>>

NotRecorded ==
    /\ Go("next", "download") /\ queue # <<>>
    /\ ToGather(Product)
    /\ seen' = seen \cup {Product}
    /\ known[Product] = NoRelease
    /\ UNCHANGED <<latest, disk, wanted, queue, known, database, fetched, said>>

-----------------------------------------------------------------------------
\* The archive is downloaded, its checksum matches, and it is extracted.
Downloaded ==
    /\ Go("download", "wipe")
    /\ fetched' = fetched \cup {Product}
    /\ UNCHANGED <<latest, disk, wanted, queue, known, database, seen, said>>

\* Variant: the folder fallen back to is not verified.
DownloadFailsUnverified ==
    /\ pc = "download"
    /\ IF known[Product] # NoRelease
       THEN pc' = "next" /\ queue' = Tail(queue)
       ELSE pc' = "raised" /\ UNCHANGED queue
    /\ UNCHANGED <<latest, disk, wanted, known, database, seen, fetched, said>>

\* All attempts failed: fall back to a folder that verifies, or raise.
DownloadFails ==
    /\ pc = "download"
    /\ \/ /\ manifest[Product] = CutManifest
          /\ pc' = "unreadable"
          /\ UNCHANGED queue
       \/ /\ manifest[Product] # CutManifest
          /\ known[Product] # NoRelease /\ Verified(Product)
          /\ pc' = "next"
          /\ queue' = Tail(queue)
       \/ /\ manifest[Product] # CutManifest
          /\ ~ (known[Product] # NoRelease /\ Verified(Product))
          /\ pc' = "raised"
          /\ UNCHANGED queue
    /\ UNCHANGED <<latest, disk, wanted, known, database, seen, fetched, said>>

\* create_folder(asset_dir, remove_content=True) deletes in no fixed order.
WipePart(part) ==
    /\ pc = "wipe"
    /\ part \in files[Product]
    /\ files' = [files EXCEPT ![Product] = @ \ {part}]
    /\ UNCHANGED <<latest, history, cut, manifest, pc, memory>>

WipeManifest ==
    /\ pc = "wipe"
    /\ manifest[Product] # NoManifest
    /\ manifest' = [manifest EXCEPT ![Product] = NoManifest]
    /\ UNCHANGED <<latest, history, cut, files, pc, memory>>

Wiped ==
    /\ Go("wipe", "move")
    /\ files[Product] = {} /\ manifest[Product] = NoManifest
    /\ UNCHANGED <<latest, disk, memory>>

\* OcBinaryData, which only OpenCorePkg needs, cannot be downloaded: return False.
NoOcBinaryData ==
    /\ Go("move", "refused")
    /\ Product = OpenCorePkg /\ files[Product] = {}
    /\ UNCHANGED <<latest, disk, memory>>

\* move_bootloader_kexts_to_product_directory, one part at a time.
MovePart(part) ==
    /\ pc = "move"
    /\ part \in Release(database[Product]) \ files[Product]
    /\ files' = [files EXCEPT ![Product] = @ \cup {part}]
    /\ UNCHANGED <<latest, history, cut, manifest, pc, memory>>

\* Variant: the manifest is begun with the first part in place.
OpenManifestEarly ==
    /\ Go("move", "manifest")
    /\ files[Product] # {}
    /\ manifest' = [manifest EXCEPT ![Product] = CutManifest]
    /\ UNCHANGED <<latest, history, cut, files, memory>>

\* generate_folder_manifest: write_file empties the file before it writes.
OpenManifest ==
    /\ Go("move", "manifest")
    /\ Release(database[Product]) \subseteq files[Product]
    /\ manifest' = [manifest EXCEPT ![Product] = CutManifest]
    /\ UNCHANGED <<latest, history, cut, files, memory>>

\* Variant: the manifest lists itself.
WriteManifestListsItself ==
    /\ Go("manifest", "record")
    /\ manifest' = [manifest EXCEPT ![Product] =
                        Manifest(files[Product] \cup {<<"manifest.json", database[Product]>>})]
    /\ UNCHANGED <<latest, history, cut, files, memory>>

WriteManifest ==
    /\ Go("manifest", "record")
    /\ manifest' = [manifest EXCEPT ![Product] = Manifest(files[Product])]
    /\ UNCHANGED <<latest, history, cut, files, memory>>

\* _update_download_history, which writes the history the same way.
OpenHistory ==
    /\ Go("record", "history")
    /\ known' = [known EXCEPT ![Product] = database[Product]]
    /\ cut' = TRUE
    /\ UNCHANGED <<latest, history, files, manifest, wanted, queue, database, seen, fetched, said>>

WriteHistory ==
    /\ Go("history", "next")
    /\ history' = known /\ cut' = FALSE
    /\ queue' = Tail(queue)
    /\ UNCHANGED <<latest, files, manifest, wanted, known, database, seen, fetched, said>>

-----------------------------------------------------------------------------
\* return True.
Gathered ==
    /\ Go("next", "gathered")
    /\ queue = <<>>
    /\ UNCHANGED <<latest, disk, memory>>

\* The build, which main() runs whatever the gathering returned, is over.
Build ==
    /\ pc \in {"gathered", "refused"} /\ pc' = "menu"
    /\ Forget
    /\ UNCHANGED <<latest, disk>>

\* main() prints what was raised and asks for an option again.
ReportError ==
    /\ pc \in {"unreadable", "raised"} /\ pc' = "menu"
    /\ Forget
    /\ UNCHANGED <<latest, disk>>

\* The program is killed and started again, or a fetch, an extraction or the
\* writing of a file raises.
Abandon ==
    /\ pc \notin {"menu", "unreadable", "raised", "gathered", "refused"}
    /\ pc' = "menu"
    /\ Forget
    /\ UNCHANGED <<latest, disk>>

Gather ==
    \/ ReadHistory
    \/ \E checked \in SUBSET KextProducts : \E found \in SUBSET checked :
           UpdateDatabase(checked, found)
    \/ SkipProduct \/ CheckRecorded \/ NotRecorded
    \/ Downloaded \/ DownloadFails
    \/ \E part \in Parts \X Releases : WipePart(part) \/ MovePart(part)
    \/ WipeManifest \/ Wiped \/ NoOcBinaryData
    \/ OpenManifest \/ WriteManifest \/ OpenHistory \/ WriteHistory
    \/ Gathered \/ Build \/ ReportError

Environment ==
    \/ \E p \in Products : Publish(p)
    \/ \E p \in Products, part \in Parts \X Releases : Damage(p, part)
    \/ Abandon

Next == Gather \/ Environment

Spec == Init /\ [][Next]_vars

-----------------------------------------------------------------------------
IsWhole(p) == \E r \in Releases : files[p] = Release(r)

Places == {"menu", "database", "next", "download", "wipe", "move", "manifest",
           "record", "history", "gathered", "refused", "unreadable", "raised"}

\* The type of every variable: gathering_files.py 141-148.
GatherTypeOK ==
    /\ latest \in [Products -> Releases]
    /\ history \in Recorded
    /\ cut \in BOOLEAN
    /\ files \in [Products -> Contents]
    /\ manifest \in [Products -> Manifests]
    /\ pc \in Places
    /\ wanted \subseteq Products
    /\ queue \in Seq(Products)
    /\ known \in Recorded
    /\ database \in Recorded
    /\ seen \subseteq Products
    /\ fetched \subseteq Products
    /\ said \subseteq Products

\* A folder that verify_folder_integrity finds valid is a whole release: no kill,
\* no failed step and no deletion leaves a partial folder, or one with parts of
\* two releases, under a manifest that matches it.
VerifiedIsWhole ==
    \A p \in Products : Verified(p) => IsWhole(p)

\* When gather_bootloader_kexts returns True, the folder of each wanted product of
\* which a release is known can be installed from: what was found, kept, downloaded
\* or fallen back to is whole.
GatheredIsWhole ==
    pc = "gathered" => \A p \in wanted : database[p] # NoRelease => IsWhole(p)

\* While the program gathers, a folder that verifies is not touched before its
\* replacement is there: a download that fails leaves the earlier release usable.
ReplacedOnlyByDownload ==
    [][\A p \in Products :
          (pc # "menu" /\ Verified(p) /\ ~ Verified(p)')
              => p \in fetched]_vars

\* "Latest version of {} already downloaded." (gathering_files.py 213): the folder
\* of a product so reported holds the release the database lists.
SaidIsLatest ==
    \A p \in said : files[p] = Release(database[p])

\* "Invalid manifest file." (integrity_checker.py 57) is a result of the
\* verification: a manifest that cannot be read does not end the gathering.
InvalidManifestIsReported ==
    pc = "unreadable" => cut
=============================================================================
