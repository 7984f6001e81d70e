------------------------- MODULE BuildSystemProofs --------------------------
(***************************************************************************)
(* Proofs about BuildSystem, for any of the libraries, any that are kept   *)
(* and any numbers of scripts and interrupts: the archives in the          *)
(* repository are good unless a download was cut short, a project keeps,   *)
(* whole, what no cleanup had reason to remove, and nothing of what one    *)
(* removes; and what is enabled comes with what it depends on.             *)
(***************************************************************************)
EXTENDS BuildSystem, TLAPS, WellFoundedInduction

-----------------------------------------------------------------------------
(* The repository.                                                         *)

\* A bad archive is the one being downloaded or verified, or was left behind
\* by an interrupt.
StoreInv ==
  /\ store = [p \in Packages |-> store[p]]
  /\ grab = [at |-> grab.at, package |-> grab.package, left |-> grab.left]
  /\ \A p \in Packages : store[p] = "bad" =>
       \/ p \in interrupted
       \/ grab.at \in {"download", "verify"} /\ grab.package = p

\* A repository as it is checked out.
LEMMA StoreInitial == StoreInit => StoreInv
BY DEF StoreInit, StoreInv, Idle

\* Every step of a grab or a removal keeps the invariant of the archives.
LEMMA StoreStep ==
  ASSUME StoreInv, [GrabStep \/ GrabPackages \/ CleanPackages \/ InterruptGrab]_storeVars
  PROVE  StoreInv'
<1>1. CASE UNCHANGED storeVars
  BY <1>1 DEF StoreInv, storeVars
<1>2. CASE GrabPackages
  BY <1>2 DEF GrabPackages, StoreInv, Idle
<1>3. CASE CleanPackages
  BY <1>3 DEF CleanPackages, StoreInv, Idle
<1>4. CASE InterruptGrab
  BY <1>4 DEF InterruptGrab, StoreInv, Idle
<1>5. CASE \E p \in Packages : DownloadPackage(p)
  BY <1>5 DEF DownloadPackage, StoreInv
<1>6. CASE \E content \in States : Downloaded(content)
  <2> PICK content \in States : Downloaded(content) BY <1>6
  <2>1. CASE content = "none"
    BY <2>1 DEF Downloaded, StoreInv, Idle
  <2>2. CASE content # "none"
    <3>1. /\ store' = [store EXCEPT ![grab.package] = content]
          /\ grab' = [grab EXCEPT !.at = "verify"]
          /\ UNCHANGED interrupted
      BY <2>2 DEF Downloaded
    <3>2. /\ grab'.at = "verify" /\ grab'.package = grab.package
          /\ grab' = [at |-> grab'.at, package |-> grab'.package, left |-> grab'.left]
      BY <3>1 DEF StoreInv
    <3>3. /\ store' = [p \in Packages |-> store'[p]]
          /\ \A p \in Packages \ {grab.package} : store'[p] = store[p]
      BY <3>1 DEF StoreInv
    <3> QED BY <3>1, <3>2, <3>3 DEF StoreInv
  <2> QED BY <2>1, <2>2
<1>7. CASE Verify
  <2>1. CASE store[grab.package] = "good"
    BY <1>7, <2>1 DEF Verify, StoreInv
  <2>2. CASE store[grab.package] # "good"
    <3>0. Idle = [at |-> Idle.at, package |-> Idle.package, left |-> Idle.left]
      BY DEF Idle
    <3>1. /\ store' = [store EXCEPT ![grab.package] = "none"]
          /\ grab' = [at |-> grab'.at, package |-> grab'.package, left |-> grab'.left]
          /\ UNCHANGED interrupted
      BY <1>7, <2>2, <3>0 DEF Verify
    <3>2. /\ store' = [p \in Packages |-> store'[p]]
          /\ \A p \in Packages \ {grab.package} : store'[p] = store[p]
          /\ \A p \in Packages : p = grab.package => store'[p] = "none"
      BY <3>1 DEF StoreInv
    <3> QED BY <3>1, <3>2 DEF StoreInv
  <2> QED BY <2>1, <2>2
<1>8. CASE GrabDone
  BY <1>8 DEF GrabDone, StoreInv, Idle
<1>9. CASE CleanOne
  BY <1>9 DEF CleanOne, StoreInv, Idle
<1> QED BY <1>1, <1>2, <1>3, <1>4, <1>5, <1>6, <1>7, <1>8, <1>9 DEF GrabStep

\* Each step of the specification is a step in the repository or none there.
LEMMA InStore ==
  ASSUME [Next]_vars
  PROVE  [GrabStep \/ GrabPackages \/ CleanPackages \/ InterruptGrab]_storeVars
BY DEF Next, vars, InRepository, Create, Update, SyncCmake, SyncScripts,
       SyncArchive, SyncedSupport, CreateVersions, ProcessFiles, UpdateCmakeLists,
       Configure, StartInProject, RemoveArchive, ArchivesRemoved, StrikeOut,
       CleanedUp, Compile, Interrupt

\* Whatever the scripts in the projects do and however often grab_packages.sh
\* and clean_packages.sh run: an archive that is not what its .sha256 says is
\* still there after the script only when a grab was at it when it was interrupted.
THEOREM GrabbedArchivesAreGood == Spec => []GrabKeepsOnlyGoodArchives
<1>1. Init => StoreInv
  BY StoreInitial DEF Init
<1>2. StoreInv /\ [Next]_vars => StoreInv'
  BY InStore, StoreStep
<1>3. StoreInv => GrabKeepsOnlyGoodArchives
  <2>1. Idle.at = "idle"
    BY DEF Idle
  <2> QED BY <2>1 DEF StoreInv, GrabKeepsOnlyGoodArchives
<1> QED BY <1>1, <1>2, <1>3, PTL DEF Spec

-----------------------------------------------------------------------------
(* The tables.                                                             *)

\* The second Boost archive is a package and not a library.
LEMMA BoostIsTwo == "BOOST2" \notin Libraries
<1> SUFFICES \A i \in DOMAIN ProjectLibraries : ProjectLibraries[i] # "BOOST2"
  BY LibrariesAssumption
<1>1. DOMAIN ProjectLibraries = 1 .. 37
  BY DEF ProjectLibraries
<1> QED BY <1>1 DEF ProjectLibraries

\* Which archives belong to a library: Boost has two, one of them shared.
LEMMA ArchivesOf ==
  /\ Archives("BOOST") = {"BOOST", "BOOST2"}
  /\ Archives("LIBBITCOIN_SYSTEM") = {"BOOST2", "LIBBITCOIN_SYSTEM"}
  /\ \A l : l \notin {"BOOST", "LIBBITCOIN_SYSTEM"} => Archives(l) = {l}
BY DEF Archives

\* A build takes one of the archives of the library.
LEMMA BuiltFromItsOwn ==
  ASSUME NEW l, NEW on PROVE ArchiveInUse(l, on) \in Archives(l)
BY ArchivesOf DEF ArchiveInUse

\* What a library that is off would take along is in use by no other.
LEMMA OffIsUnused ==
  ASSUME NEW on, NEW l, l \notin on, l \notin Kept, l # "BOOST2"
  PROVE  Archives(l) \cap InUse(on) = {}
<1> USE BuildSystemAssumption, BoostIsTwo DEF InUse, ArchiveInUse
<1>1. CASE l = "BOOST"
  BY <1>1, ArchivesOf
<1>2. CASE l = "LIBBITCOIN_SYSTEM"
  BY <1>2, ArchivesOf
<1>3. CASE l \notin {"BOOST", "LIBBITCOIN_SYSTEM"}
  BY <1>3, ArchivesOf
<1> QED BY <1>1, <1>2, <1>3

\* What a library that is on makes superfluous is not what any library is built from.
LEMMA OnIsUnused ==
  ASSUME NEW on, NEW l \in on
  PROVE  UnusedWhenOn(l) \cap InUse(on) = {}
BY DEF UnusedWhenOn, InUse, ArchiveInUse

-----------------------------------------------------------------------------
(* The project.                                                            *)

ProjectType ==
  /\ project = [there |-> project.there, configured |-> project.configured,
                cleanup |-> project.cleanup,
                archive |-> project.archive, mentions |-> project.mentions]
  /\ project.archive = [p \in Packages |-> project.archive[p]]
  /\ project.mentions = [m \in Place |-> project.mentions[m]]
  /\ \A m \in Place : project.mentions[m] \subseteq Libraries

RunType ==
  run = [script |-> run.script, at |-> run.at, on |-> run.on, left |-> run.left,
         through |-> run.through, step |-> run.step, toSync |-> run.toSync, cleaned |-> run.cleaned]

\* Until its end a create or update counts as cut short, and it has brought
\* back what its commands so far bring back.
Brought(ats, places) ==
  run.script \in {"create", "update"} /\ run.at \in ats =>
    \A m \in places : project.mentions[m] = Libraries

SyncInv ==
  /\ run.script \in {"create", "update"} => synced = "cut"
  /\ Brought({"scripts", "support", "versions", "files", "enable"},
             {"libraries.cmake", "options.cmake", "hashes.cmake", "cmake file"})
  /\ Brought({"support", "versions", "files", "enable"},
             {"cleanup entry", "libraries.sh", "versions.sh"})
  /\ Brought({"files", "enable"}, {"versions.cmake"})

\* A cleanup has a use for all that is spared, and what it strikes out is off.
CleanInv ==
  run.at = "cleanup" =>
    /\ spared \subseteq InUse(run.on)
    /\ run.step = 0 \/ Off(First(run.left))

\* What is spared is there, and so are the libraries that could need it.
SparedInv ==
  synced # "cut" =>
    /\ \A p \in Packages \cap spared : project.archive[p] = "good"
    /\ \A l \in Libraries : Archives(l) \cap spared # {} =>
         \A m \in Place : l \in project.mentions[m]

ProjectInv == ProjectType /\ RunType /\ SyncInv /\ CleanInv /\ SparedInv

\* The places, written out.
LEMMA PlacesAre ==
  Place = {"libraries.cmake", "CMakeLists.txt", "options.cmake", "cleanup entry",
           "libraries.sh", "hashes.cmake", "versions.cmake", "versions.sh", "cmake file"}
<1>1. DOMAIN Places = 1 .. 9
  BY DEF Places
<1>2. DOMAIN Places = {1, 2, 3, 4, 5, 6, 7, 8, 9}
  BY <1>1
<1>3. \A x : x \in Place <=> \E i \in {1, 2, 3, 4, 5, 6, 7, 8, 9} : x = Places[i]
  BY <1>2 DEF Place
<1>4. /\ Places[1] = "libraries.cmake" /\ Places[2] = "CMakeLists.txt"
      /\ Places[3] = "options.cmake" /\ Places[4] = "cleanup entry"
      /\ Places[5] = "libraries.sh" /\ Places[6] = "hashes.cmake"
      /\ Places[7] = "versions.cmake" /\ Places[8] = "versions.sh"
      /\ Places[9] = "cmake file"
  BY DEF Places
<1>5. \A x : x \in Place <=>
        x \in {"libraries.cmake", "CMakeLists.txt", "options.cmake", "cleanup entry",
               "libraries.sh", "hashes.cmake", "versions.cmake", "versions.sh",
               "cmake file"}
  <2> TAKE x
  <2>1. x \in Place <=>
          \/ x = Places[1] \/ x = Places[2] \/ x = Places[3] \/ x = Places[4]
          \/ x = Places[5] \/ x = Places[6] \/ x = Places[7] \/ x = Places[8]
          \/ x = Places[9]
    BY <1>3
  <2> QED BY <2>1, <1>4
<1> QED BY <1>5

\* The record of no script, written out.
LEMMA NoRunIs ==
  /\ NoRun.script = "none" /\ NoRun.at = "" /\ NoRun.step = 0
  /\ NoRun = [script |-> NoRun.script, at |-> NoRun.at, on |-> NoRun.on,
              left |-> NoRun.left, through |-> NoRun.through, step |-> NoRun.step,
              toSync |-> NoRun.toSync, cleaned |-> NoRun.cleaned]
BY DEF NoRun

\* Before the first create there is nothing that could be missing.
LEMMA ProjectInitial == Init => ProjectInv
<1> SUFFICES ASSUME Init PROVE ProjectInv
  OBVIOUS
<1> USE DEF Init
<1>1. ProjectType
  BY DEF ProjectType
<1>2. RunType
  BY NoRunIs DEF RunType
<1>3. SyncInv
  BY NoRunIs DEF SyncInv, Brought
<1>4. CleanInv
  BY NoRunIs DEF CleanInv
<1>5. SparedInv
  BY DEF SparedInv
<1> QED BY <1>1, <1>2, <1>3, <1>4, <1>5 DEF ProjectInv

\* Steps that leave the project's directory alone.
LEMMA RunStep ==
  ASSUME ProjectInv, UNCHANGED <<project, synced, spared>>, RunType',
         \/ UNCHANGED run
         \/ run' = NoRun
         \/ /\ run'.script = run.script
            /\ run.at = "support" /\ run'.at \in {"support", "versions"}
  PROVE  ProjectInv'
<1> USE DEF ProjectInv
<1>1. ProjectType'
  BY DEF ProjectType
<1>2. SyncInv'
  BY NoRunIs DEF SyncInv, Brought
<1>3. CleanInv'
  BY NoRunIs DEF CleanInv, Off
<1>4. SparedInv'
  BY DEF SparedInv
<1> QED BY <1>1, <1>2, <1>3, <1>4

\* Steps that are not a command of a script.
LEMMA IdleStep ==
  ASSUME ProjectInv,
         \/ UNCHANGED vars
         \/ InRepository /\ UNCHANGED <<project, config, run, synced, spared, scripts>>
         \/ \E l \in Libraries : Configure(l)
         \/ SyncedSupport \/ Compile \/ Interrupt
  PROVE  ProjectInv'
<1>1. CASE UNCHANGED <<project, run, synced, spared>>
  BY <1>1, RunStep DEF ProjectInv, RunType
<1>2. CASE \E l \in Libraries : Configure(l)
  BY <1>2, <1>1 DEF Configure
<1>3. CASE SyncedSupport
  <2>1. run' = [run EXCEPT !.at = "versions"]
    BY <1>3 DEF SyncedSupport, GoTo
  <2>2. RunType' /\ run'.script = run.script /\ run'.at = "versions"
    BY <2>1 DEF ProjectInv, RunType
  <2> QED BY <1>3, <2>2, RunStep DEF SyncedSupport, Syncing
<1>4. CASE Compile \/ Interrupt
  <2>1. run' = NoRun /\ UNCHANGED <<project, synced, spared>>
    BY <1>4 DEF Compile, Interrupt
  <2>2. RunType'
    BY <2>1, NoRunIs DEF RunType
  <2> QED BY <2>1, <2>2, RunStep
<1> QED BY <1>1, <1>2, <1>3, <1>4 DEF vars

\* Steps of create and update: nothing counts as spared before they are through.
LEMMA SyncStep ==
  ASSUME ProjectInv, ProjectType', RunType',
         run'.script \in {"create", "update"}, run'.at # "cleanup",
         synced' = "cut", SyncInv'
  PROVE  ProjectInv'
BY DEF ProjectInv, CleanInv, SparedInv

\* create_project.sh and update_project.sh start.
LEMMA StartSyncStep ==
  ASSUME ProjectInv, Create \/ Update PROVE ProjectInv'
<1> USE DEF ProjectInv
<1>1. PICK script \in {"create", "update"} : StartScript(script, "cmake")
  BY DEF Create, Update
<1>2. /\ RunType' /\ run'.script = script /\ run'.at = "cmake"
  BY <1>1, NoRunIs DEF StartScript, RunType
<1>3. project' = [project EXCEPT !.there = TRUE] /\ synced' = "cut"
  BY DEF Create, Update
<1>4. ProjectType'
  BY <1>3 DEF ProjectType
<1>5. SyncInv'
  BY <1>2, <1>3 DEF SyncInv, Brought
<1> QED BY <1>2, <1>3, <1>4, <1>5, SyncStep

\* What a command of create or update does to the places.
LEMMA MentionIs ==
  ASSUME ProjectType, NEW places, NEW libraries
  PROVE  /\ Mention(places, libraries) = [m \in Place |-> Mention(places, libraries)[m]]
         /\ \A m \in Place : Mention(places, libraries)[m] =
              IF m \in places THEN libraries ELSE project.mentions[m]
         /\ libraries \subseteq Libraries =>
              \A m \in Place : Mention(places, libraries)[m] \subseteq Libraries
<1> DEFINE M == Mention(places, libraries)
<1>1. M = [m \in Place |-> M[m]]
  BY DEF Mention
<1>2. \A m \in Place : M[m] = IF m \in places THEN libraries ELSE project.mentions[m]
  BY DEF Mention
<1> HIDE DEF M
<1>3. libraries \subseteq Libraries => \A m \in Place : M[m] \subseteq Libraries
  BY <1>2 DEF ProjectType
<1> QED BY <1>1, <1>2, <1>3 DEF M

\* They copy cmake/ ...
LEMMA SyncCmakeStep == ASSUME ProjectInv, SyncCmake PROVE ProjectInv'
<1> USE DEF ProjectInv
<1> DEFINE G == {"libraries.cmake", "options.cmake", "hashes.cmake", "cmake file"}
           M == [Mention(G, Libraries) EXCEPT !["versions.cmake"] = {}]
<1>1. /\ project' = [project EXCEPT !.mentions = M]
      /\ run' = [run EXCEPT !.at = "scripts"]
      /\ run.script \in {"create", "update"} /\ UNCHANGED synced
  BY DEF SyncCmake, GoTo, Syncing
<1>2. /\ M = [m \in Place |-> M[m]]
      /\ \A m \in Place : M[m] \subseteq Libraries
      /\ \A m \in G : M[m] = Libraries
  <2> DEFINE L == Mention(G, Libraries)
  <2>1. /\ L = [m \in Place |-> L[m]]
        /\ \A m \in Place : L[m] \subseteq Libraries
        /\ \A m \in Place : m \in G => L[m] = Libraries
    <3> HIDE DEF G
    <3> QED BY MentionIs
  <2> HIDE DEF L
  <2>2. M = [L EXCEPT !["versions.cmake"] = {}]
    BY DEF L
  <2> HIDE DEF M
  <2> QED BY <2>1, <2>2, PlacesAre
<1> HIDE DEF M
<1>3. ProjectType' /\ project'.mentions = M
  BY <1>1, <1>2 DEF ProjectType
<1>4. RunType' /\ run'.at = "scripts" /\ run'.script = run.script
  BY <1>1 DEF RunType
<1>5. SyncInv'
  BY <1>1, <1>2, <1>3, <1>4 DEF SyncInv, Brought
<1> QED BY <1>1, <1>3, <1>4, <1>5, SyncStep DEF SyncInv

\* ... and scripts/ ...
LEMMA SyncScriptsStep == ASSUME ProjectInv, SyncScripts PROVE ProjectInv'
<1> USE DEF ProjectInv
<1> DEFINE G == {"cleanup entry", "libraries.sh", "versions.sh"}
           M == Mention(G, Libraries)
<1>1. /\ project' = [project EXCEPT !.mentions = M, !.cleanup = TRUE]
      /\ run' = [run EXCEPT !.at = "support", !.toSync = Packages]
      /\ run.script \in {"create", "update"} /\ run.at = "scripts" /\ UNCHANGED synced
  BY DEF SyncScripts, Syncing
<1>2. /\ M = [m \in Place |-> M[m]]
      /\ \A m \in Place : M[m] \subseteq Libraries
      /\ \A m \in Place : M[m] = IF m \in G THEN Libraries ELSE project.mentions[m]
  <2> HIDE DEF G
  <2> QED BY MentionIs
<1> HIDE DEF M
<1>3. ProjectType' /\ project'.mentions = M
  BY <1>1, <1>2 DEF ProjectType
<1>4. RunType' /\ run'.at = "support" /\ run'.script = run.script
  BY <1>1 DEF RunType
<1>5. SyncInv'
  BY <1>1, <1>2, <1>3, <1>4, PlacesAre DEF SyncInv, Brought
<1> QED BY <1>1, <1>3, <1>4, <1>5, SyncStep DEF SyncInv

\* ... and the archives one by one, each as it is in the repository by then ...
LEMMA SyncArchiveStep ==
  ASSUME ProjectInv, NEW p \in Packages, SyncArchive(p) PROVE ProjectInv'
<1> USE DEF ProjectInv
<1>1. /\ project' = [project EXCEPT !.archive[p] = store[p]]
      /\ run' = [run EXCEPT !.toSync = @ \ {p}]
      /\ run.script \in {"create", "update"} /\ run.at = "support" /\ UNCHANGED synced
  BY DEF SyncArchive, Syncing
<1>2. ProjectType' /\ project'.mentions = project.mentions
  BY <1>1 DEF ProjectType
<1>3. RunType' /\ run'.at = "support" /\ run'.script = run.script
  BY <1>1 DEF RunType
<1>4. SyncInv'
  BY <1>1, <1>2, <1>3 DEF SyncInv, Brought
<1> QED BY <1>1, <1>2, <1>3, <1>4, SyncStep DEF SyncInv

\* ... and write the versions down.
LEMMA CreateVersionsStep == ASSUME ProjectInv, CreateVersions PROVE ProjectInv'
<1> USE DEF ProjectInv
<1> DEFINE M == Mention({"versions.cmake"}, Libraries)
<1>1. /\ project' = [project EXCEPT !.mentions = M]
      /\ run' = [run EXCEPT !.at = "files"]
      /\ run.script \in {"create", "update"} /\ run.at = "versions" /\ UNCHANGED synced
  BY DEF CreateVersions, GoTo, Syncing
<1>2. /\ M = [m \in Place |-> M[m]]
      /\ \A m \in Place : M[m] \subseteq Libraries
      /\ \A m \in Place : M[m] = IF m = "versions.cmake" THEN Libraries
                                                         ELSE project.mentions[m]
  BY MentionIs
<1> HIDE DEF M
<1>3. ProjectType' /\ project'.mentions = M
  BY <1>1, <1>2 DEF ProjectType
<1>4. RunType' /\ run'.at = "files" /\ run'.script = run.script
  BY <1>1 DEF RunType
<1>5. SyncInv'
  BY <1>1, <1>2, <1>3, <1>4, PlacesAre DEF SyncInv, Brought
<1> QED BY <1>1, <1>3, <1>4, <1>5, SyncStep DEF SyncInv

\* ... and the files of the template.
LEMMA ProcessFilesStep == ASSUME ProjectInv, ProcessFiles PROVE ProjectInv'
<1> USE DEF ProjectInv
<1> DEFINE M == Mention({"CMakeLists.txt"}, {})
<1>1. /\ project' = [project EXCEPT !.mentions = M,
                                    !.configured = @ \/ run.script = "create"]
      /\ run' = [run EXCEPT !.at = "enable"]
      /\ run.script \in {"create", "update"} /\ run.at = "files" /\ UNCHANGED synced
  BY DEF ProcessFiles, GoTo, Syncing
<1>2. /\ M = [m \in Place |-> M[m]]
      /\ \A m \in Place : M[m] \subseteq Libraries
      /\ \A m \in Place : M[m] = IF m = "CMakeLists.txt" THEN {} ELSE project.mentions[m]
  BY MentionIs
<1> HIDE DEF M
<1>3. ProjectType' /\ project'.mentions = M
  BY <1>1, <1>2 DEF ProjectType
<1>4. RunType' /\ run'.at = "enable" /\ run'.script = run.script
  BY <1>1 DEF RunType
<1>5. SyncInv'
  BY <1>1, <1>2, <1>3, <1>4, PlacesAre DEF SyncInv, Brought
<1> QED BY <1>1, <1>3, <1>4, <1>5, SyncStep DEF SyncInv

\* The end of a create or update: everything is mentioned everywhere.
LEMMA UpdateCmakeListsStep == ASSUME ProjectInv, UpdateCmakeLists PROVE ProjectInv'
<1> USE DEF ProjectInv
<1> DEFINE M == Mention({"CMakeLists.txt"}, Libraries)
<1>1. /\ project' = [project EXCEPT !.mentions = M]
      /\ run' = NoRun
      /\ run.script \in {"create", "update"} /\ run.at = "enable"
      /\ spared' = {p \in Packages : project.archive[p] = "good"}
  BY DEF UpdateCmakeLists, Syncing
<1>2. /\ M = [m \in Place |-> M[m]]
      /\ \A m \in Place : M[m] \subseteq Libraries
      /\ \A m \in Place : M[m] = IF m = "CMakeLists.txt" THEN Libraries
                                                         ELSE project.mentions[m]
  BY MentionIs
<1> HIDE DEF M
<1>3. ProjectType' /\ project'.mentions = M /\ project'.archive = project.archive
  BY <1>1, <1>2 DEF ProjectType
<1>4. RunType' /\ SyncInv' /\ CleanInv'
  BY <1>1, NoRunIs DEF RunType, SyncInv, CleanInv, Brought
<1>5. \A m \in Place : M[m] = Libraries
  BY <1>1, <1>2, PlacesAre DEF SyncInv, Brought
<1>6. SparedInv'
  BY <1>1, <1>3, <1>5 DEF SparedInv
<1> QED BY <1>3, <1>4, <1>6

\* A cleanup has a use for what is spared from its beginning.
LEMMA StartInProjectStep ==
  ASSUME ProjectInv, NEW script \in {"make", "cleanup"}, StartInProject(script)
  PROVE  ProjectInv'
<1> USE DEF ProjectInv
<1>1. /\ UNCHANGED <<project, synced>>
      /\ \E on, left :
           \/ /\ run' = [NoRun EXCEPT !.script = script, !.at = "cleanup", !.on = on,
                                     !.left = left, !.through = left]
              /\ spared' = spared \cap InUse(on)
           \/ /\ run' = [NoRun EXCEPT !.script = script, !.at = "compile", !.on = on]
              /\ UNCHANGED spared
  BY DEF StartInProject
<1>2. /\ RunType' /\ run'.script = script
      /\ \/ /\ run'.at = "cleanup" /\ run'.step = 0
            /\ spared' = spared \cap InUse(run'.on)
         \/ run'.at = "compile" /\ UNCHANGED spared
  <2>1. PICK on, left :
          \/ /\ run' = [NoRun EXCEPT !.script = script, !.at = "cleanup", !.on = on,
                                    !.left = left, !.through = left]
             /\ spared' = spared \cap InUse(on)
          \/ /\ run' = [NoRun EXCEPT !.script = script, !.at = "compile", !.on = on]
             /\ UNCHANGED spared
    BY <1>1
  <2>2. CASE run' = [NoRun EXCEPT !.script = script, !.at = "cleanup", !.on = on,
                                  !.left = left, !.through = left]
    <3>1. RunType' /\ run'.script = script /\ run'.at = "cleanup" /\ run'.step = 0
      BY <2>2, NoRunIs DEF RunType
    <3>2. run'.on = on
      BY <2>2, NoRunIs
    <3> QED BY <2>1, <2>2, <3>1, <3>2, NoRunIs
  <2>3. CASE run' = [NoRun EXCEPT !.script = script, !.at = "compile", !.on = on]
    <3>1. RunType' /\ run'.script = script /\ run'.at = "compile"
      BY <2>3, NoRunIs DEF RunType
    <3> QED BY <2>1, <2>3, <3>1, NoRunIs
  <2> QED BY <2>1, <2>2, <2>3
<1>3. ProjectType'
  BY <1>1 DEF ProjectType
<1>4. SyncInv'
  BY <1>1, <1>2 DEF SyncInv, Brought
<1>5. CleanInv'
  BY <1>1, <1>2 DEF CleanInv
<1>6. SparedInv'
  BY <1>1, <1>2 DEF SparedInv
<1> QED BY <1>2, <1>3, <1>4, <1>5, <1>6

\* What a cleanup removes, no library that is on or kept is built from.
LEMMA RemovedIsUnused ==
  ASSUME ProjectType, NEW l PROVE Removed(l) \cap InUse(run.on) = {}
<1>1. CASE Off(l)
  <2>1. l \in project.mentions["cleanup entry"] => l # "BOOST2"
    BY BoostIsTwo, PlacesAre DEF ProjectType
  <2> QED BY <1>1, <2>1, OffIsUnused DEF Off, Removed
<1>2. CASE ~Off(l)
  BY <1>2, OnIsUnused DEF Removed
<1> QED BY <1>1, <1>2

\* cleanup.sh removes an archive that no library in use is built from ...
LEMMA RemoveArchiveStep ==
  ASSUME ProjectInv, NEW p \in Packages, RemoveArchive(p) PROVE ProjectInv'
<1> USE DEF ProjectInv
<1>1. /\ project' = [project EXCEPT !.archive[p] = "none"]
      /\ UNCHANGED <<run, synced, spared>>
      /\ run.at = "cleanup" /\ p \in Removed(First(run.left))
  BY DEF RemoveArchive, Cleaning
<1>2. ProjectType' /\ project'.mentions = project.mentions
  BY <1>1 DEF ProjectType
<1>3. RunType' /\ SyncInv' /\ CleanInv'
  BY <1>1, <1>2 DEF RunType, SyncInv, CleanInv, Brought, Off
<1>4. p \notin spared
  BY <1>1, RemovedIsUnused DEF CleanInv
<1>5. \A x \in Packages : x # p => project'.archive[x] = project.archive[x]
  BY <1>1 DEF ProjectType
<1>6. SparedInv'
  BY <1>1, <1>2, <1>4, <1>5 DEF SparedInv
<1> QED BY <1>2, <1>3, <1>6

\* NextLibrary, or the first place to strike out of.
LEMMA CleaningGoesOn ==
  ASSUME ProjectInv, run.at = "cleanup", UNCHANGED <<synced, spared>>,
         ProjectType', SparedInv',
         \/ NextLibrary
         \/ \E n : run' = [run EXCEPT !.step = n] /\ Off(First(run.left))
  PROVE  ProjectInv'
<1> USE DEF ProjectInv
<1>1. /\ RunType' /\ run'.script = run.script /\ run'.at = "cleanup" /\ run'.on = run.on
      /\ run'.step = 0 \/ (run'.left = run.left /\ Off(First(run.left)))
  BY DEF NextLibrary, RunType
<1>2. SyncInv'
  BY <1>1 DEF SyncInv, Brought
<1>3. CleanInv'
  BY <1>1 DEF CleanInv, Off
<1> QED BY <1>1, <1>2, <1>3

\* ... until there is none left.
LEMMA ArchivesRemovedStep == ASSUME ProjectInv, ArchivesRemoved PROVE ProjectInv'
<1>1. ProjectType' /\ SparedInv'
  BY DEF ArchivesRemoved, ProjectInv, ProjectType, SparedInv
<1> QED BY <1>1, CleaningGoesOn DEF ArchivesRemoved, Cleaning

\* What is struck out is off, and so has no archive that is spared.
LEMMA StrikeOutStep == ASSUME ProjectInv, StrikeOut PROVE ProjectInv'
<1> USE DEF ProjectInv
<1> DEFINE h == First(run.left)
           m == Places[run.step]
<1>1. /\ project' = [project EXCEPT !.mentions[m] = @ \ {h}]
      /\ run.at = "cleanup" /\ run.step # 0 /\ UNCHANGED <<synced, spared>>
      /\ NextLibrary \/ \E n : run' = [run EXCEPT !.step = n]
  BY DEF StrikeOut, Cleaning
<1>2. Off(h)
  BY <1>1 DEF CleanInv
<1> HIDE DEF h, m
<1>3. ProjectType' /\ project'.archive = project.archive
  BY <1>1 DEF ProjectType
<1>4. \A x \in Place, l \in Libraries :
        l # h /\ l \in project.mentions[x] => l \in project'.mentions[x]
  BY <1>1 DEF ProjectType
<1>5. h \in Libraries => Archives(h) \cap spared = {}
  BY <1>1, <1>2, BoostIsTwo, OffIsUnused DEF CleanInv, Off
<1>6. SparedInv'
  BY <1>1, <1>3, <1>4, <1>5 DEF SparedInv
<1> QED BY <1>1, <1>2, <1>3, <1>6, CleaningGoesOn DEF h

\* The cleanup is over.
LEMMA CleanedUpStep == ASSUME ProjectInv, CleanedUp PROVE ProjectInv'
<1> USE DEF ProjectInv
<1>1. /\ run.at = "cleanup" /\ UNCHANGED <<synced, spared>>
      /\ \/ run' = NoRun /\ UNCHANGED project
         \/ /\ project' = [project EXCEPT !.cleanup = FALSE]
            /\ run' = [run EXCEPT !.at = "compile", !.cleaned = TRUE]
  BY DEF CleanedUp
<1>2. ProjectType' /\ UNCHANGED <<project.archive, project.mentions>>
  BY <1>1 DEF ProjectType
<1>3. /\ RunType' /\ run'.at # "cleanup"
      /\ \/ run'.script = "none"
         \/ run'.script = run.script /\ run'.at = "compile"
  BY <1>1, NoRunIs DEF RunType
<1>4. SyncInv' /\ CleanInv'
  BY <1>1, <1>3 DEF SyncInv, CleanInv, Brought
<1>5. SparedInv'
  BY <1>1, <1>2 DEF SparedInv
<1> QED BY <1>2, <1>3, <1>4, <1>5

\* The invariant of a project is inductive.
LEMMA ProjectStep == ASSUME ProjectInv, [Next]_vars PROVE ProjectInv'
BY IdleStep, StartSyncStep, SyncCmakeStep, SyncScriptsStep, SyncArchiveStep,
   CreateVersionsStep, ProcessFilesStep, UpdateCmakeListsStep, StartInProjectStep,
   RemoveArchiveStep, ArchivesRemovedStep, StrikeOutStep, CleanedUpStep
   DEF Next

\* What holds between any two commands of any script, interrupted or not.
THEOREM ProjectInductive == Spec => []ProjectInv
BY ProjectInitial, ProjectStep, PTL DEF Spec

\* No order of creating, updating, cleaning up, interrupting and changing
\* config.sh costs a library its archive or its place in a file, as long as no
\* cleanup since the last complete create or update found that archive unused.
THEOREM BuildsFindTheirLibraries == Spec => []InUseStaysWhole
<1>1. ProjectInv => InUseStaysWhole
  <2> SUFFICES ASSUME ProjectInv, synced # "cut",
                      NEW l \in run.on \cap Libraries, ArchiveInUse(l, run.on) \in spared
               PROVE  Whole(l)
    BY DEF InUseStaysWhole
  <2>1. ArchiveInUse(l, run.on) \in Archives(l)
    BY BuiltFromItsOwn
  <2>2. ArchiveInUse(l, run.on) \in Packages
    BY <2>1 DEF Packages
  <2> QED BY <2>1, <2>2 DEF ProjectInv, SparedInv, Whole
<1> QED BY ProjectInductive, <1>1, PTL

-----------------------------------------------------------------------------
(* The dependencies.                                                       *)

\* What a rule of env.sh does to the libraries that are on.
LEMMA RuleIs ==
  ASSUME NEW L, NEW any, NEW enabled, NEW disabled
  PROVE  \A x : x \in ApplyRule(L, When(any, enabled, disabled)) <=>
           \/ x \in L /\ (any \cap L = {} \/ x \notin disabled)
           \/ any \cap L # {} /\ x \in enabled /\ x \notin disabled
<1> DEFINE R == When(any, enabled, disabled)
<1>1. R.any = any /\ R.enabled = enabled /\ R.disabled = disabled
  BY DEF When
<1> HIDE DEF R
<1>2. ApplyRule(L, R) = IF any \cap L = {} THEN L ELSE (L \cup enabled) \ disabled
  BY <1>1 DEF ApplyRule
<1>3. \A x : x \in ApplyRule(L, R) <=>
        \/ x \in L /\ (any \cap L = {} \/ x \notin disabled)
        \/ any \cap L # {} /\ x \in enabled /\ x \notin disabled
  <2>1. CASE any \cap L = {}
    BY <1>2, <2>1
  <2>2. CASE any \cap L # {}
    BY <1>2, <2>2
  <2> QED BY <2>1, <2>2
<1> QED BY <1>3 DEF R

\* The rules, one by one.
LEMMA RulesAre ==
  /\ Rules[1] = When({"SFML"}, {"FLAC", "FONTCONFIG", "FREETYPE2", "OGG", "OPENAL", "VORBIS"}, {})
  /\ Rules[2] = When({"CPP_HTTPLIB"}, {"CURL", "OPENSSL"}, {})
  /\ Rules[3] = When({"CURL"}, {"OPENSSL"}, {})
  /\ Rules[4] = When({"LIBBITCOIN_SYSTEM"}, {"BOOST", "SECP256K1"}, {})
  /\ Rules[5] = When({"FONTCONFIG"}, {"FREETYPE2"}, {})
  /\ Rules[6] = When({"WXWIDGETS"}, {"CURL"}, {})
  /\ Rules[7] = When({"SPDLOG"}, {}, {"FMT"})
  /\ Rules[8] = When({"VORBIS"}, {"OGG"}, {})
  /\ Rules[9] = When({"FLAC"}, {"LIBICONV", "OGG", "VORBIS"}, {})
  /\ Rules[10] = When({"BOOST"}, {"OPENSSL"}, {})
  /\ Rules[11] = When({"FONTCONFIG", "NANA", "SFML", "WXWIDGETS", "SDL"},
                      {"LIBJPEG_TURBO", "LIBPNG"}, {})
  /\ Rules[12] = When({"LIBDSM"}, {"LIBICONV", "LIBTASN", "OPENSSL"}, {})
BY DEF Rules

\* What a library that is on needs is on, but for what wxWidgets makes Curl need.
LEMMA NeededAreOn ==
  ASSUME NEW configured, NEW l \in Resolve(configured)
  PROVE  \/ TargetsNeeded(l) \subseteq Resolve(configured)
         \/ /\ l = "CURL" /\ "WXWIDGETS" \in Resolve(configured)
            /\ {"CURL", "CPP_HTTPLIB"} \cap configured = {}
<1> DEFINE o1  == ApplyRule(configured, Rules[1])
           o2  == ApplyRule(o1, Rules[2])
           o3  == ApplyRule(o2, Rules[3])
           o4  == ApplyRule(o3, Rules[4])
           o5  == ApplyRule(o4, Rules[5])
           o6  == ApplyRule(o5, Rules[6])
           o7  == ApplyRule(o6, Rules[7])
           o8  == ApplyRule(o7, Rules[8])
           o9  == ApplyRule(o8, Rules[9])
           o10 == ApplyRule(o9, Rules[10])
           o11 == ApplyRule(o10, Rules[11])
           o12 == ApplyRule(o11, Rules[12])
<1>0. Resolve(configured) = o12
  <2>1. o4 = Four(configured, Rules, 1)
    BY DEF Four
  <2>2. o8 = Four(o4, Rules, 5)
    BY DEF Four
  <2>3. o12 = Four(o8, Rules, 9)
    BY DEF Four
  <2> QED BY <2>1, <2>2, <2>3 DEF Resolve, OnePass
<1> DEFINE Rule(on, any, enabled, next) ==
             \A x : x \in next <=> x \in on \/ (any \cap on # {} /\ x \in enabled)
<1>r. ASSUME NEW on, NEW any, NEW enabled
      PROVE  Rule(on, any, enabled, ApplyRule(on, When(any, enabled, {})))
  BY RuleIs
<1>1. Rule(configured, {"SFML"},
           {"FLAC", "FONTCONFIG", "FREETYPE2", "OGG", "OPENAL", "VORBIS"}, o1)
  BY <1>r, RulesAre
<1> HIDE DEF o1
<1>2. Rule(o1, {"CPP_HTTPLIB"}, {"CURL", "OPENSSL"}, o2)
  BY <1>r, RulesAre
<1> HIDE DEF o2
<1>3. Rule(o2, {"CURL"}, {"OPENSSL"}, o3)
  BY <1>r, RulesAre
<1> HIDE DEF o3
<1>4. Rule(o3, {"LIBBITCOIN_SYSTEM"}, {"BOOST", "SECP256K1"}, o4)
  BY <1>r, RulesAre
<1> HIDE DEF o4
<1>5. Rule(o4, {"FONTCONFIG"}, {"FREETYPE2"}, o5)
  BY <1>r, RulesAre
<1> HIDE DEF o5
<1>6. Rule(o5, {"WXWIDGETS"}, {"CURL"}, o6)
  BY <1>r, RulesAre
<1> HIDE DEF o6
<1>7. \A x : x \in o7 <=> x \in o6 /\ ("SPDLOG" \notin o6 \/ x # "FMT")
  BY RuleIs, RulesAre
<1> HIDE DEF o7
<1>8. Rule(o7, {"VORBIS"}, {"OGG"}, o8)
  BY <1>r, RulesAre
<1> HIDE DEF o8
<1>9. Rule(o8, {"FLAC"}, {"LIBICONV", "OGG", "VORBIS"}, o9)
  BY <1>r, RulesAre
<1> HIDE DEF o9
<1>10. Rule(o9, {"BOOST"}, {"OPENSSL"}, o10)
  BY <1>r, RulesAre
<1> HIDE DEF o10
<1>11. Rule(o10, {"FONTCONFIG", "NANA", "SFML", "WXWIDGETS", "SDL"},
            {"LIBJPEG_TURBO", "LIBPNG"}, o11)
  BY <1>r, RulesAre
<1> HIDE DEF o11
<1>12. Rule(o11, {"LIBDSM"}, {"LIBICONV", "LIBTASN", "OPENSSL"}, o12)
  BY <1>r, RulesAre
<1> HIDE DEF o12
<1>k. \A x : x # "FMT" => 
        /\ x \in o1 => x \in o2
        /\ x \in o2 => x \in o3
        /\ x \in o3 => x \in o4
        /\ x \in o4 => x \in o5
        /\ x \in o5 => x \in o6
        /\ x \in o6 => x \in o7
        /\ x \in o7 => x \in o8
        /\ x \in o8 => x \in o9
        /\ x \in o9 => x \in o10
        /\ x \in o10 => x \in o11
        /\ x \in o11 => x \in o12
  BY <1>1, <1>2, <1>3, <1>4, <1>5, <1>6, <1>7, <1>8, <1>9, <1>10, <1>11, <1>12
<1> SUFFICES \/ TargetsNeeded(l) \subseteq o12
             \/ /\ l = "CURL" /\ "WXWIDGETS" \in o12
                /\ {"CURL", "CPP_HTTPLIB"} \cap configured = {}
  BY <1>0
<1>l. l \in o12
  BY <1>0
<1>21. CASE l = "BOOST"
  <2>1. TargetsNeeded(l) = {"OPENSSL"}
    BY <1>21 DEF TargetsNeeded, BoostNeeds
  <2>2. l \in o9
    BY <1>l, <1>21, <1>10, <1>11, <1>12
  <2>3. "OPENSSL" \in o10
    BY <1>21, <2>2, <1>10
  <2> QED BY <2>1, <2>3, <1>k
<1>22. CASE l = "CPP_HTTPLIB"
  <2>1. TargetsNeeded(l) = {"CURL", "OPENSSL"}
    BY <1>22 DEF TargetsNeeded, CppHttplibNeeds
  <2>2. l \in o1
    BY <1>l, <1>22, <1>2, <1>3, <1>4, <1>5, <1>6, <1>7, <1>8, <1>9, <1>10, <1>11, <1>12
  <2>3. "CURL" \in o2 /\ "OPENSSL" \in o2
    BY <1>22, <2>2, <1>2
  <2> QED BY <2>1, <2>3, <1>k
<1>24. CASE l = "LIBBITCOIN_SYSTEM"
  <2>1. TargetsNeeded(l) = {"BOOST", "SECP256K1"}
    BY <1>24 DEF TargetsNeeded, LibbitcoinSystemNeeds
  <2>2. l \in o3
    BY <1>l, <1>24, <1>4, <1>5, <1>6, <1>7, <1>8, <1>9, <1>10, <1>11, <1>12
  <2>3. "BOOST" \in o4 /\ "SECP256K1" \in o4
    BY <1>24, <2>2, <1>4
  <2> QED BY <2>1, <2>3, <1>k
<1>25. CASE l = "LIBDSM"
  <2>1. TargetsNeeded(l) = {"LIBICONV", "LIBTASN", "OPENSSL"}
    BY <1>25 DEF TargetsNeeded, LibdsmNeeds
  <2>2. l \in o11
    BY <1>l, <1>25, <1>12
  <2>3. "LIBICONV" \in o12 /\ "LIBTASN" \in o12 /\ "OPENSSL" \in o12
    BY <1>25, <2>2, <1>12
  <2> QED BY <2>1, <2>3, <1>k
<1>26. CASE l = "NANA"
  <2>1. TargetsNeeded(l) = {"LIBJPEG_TURBO", "LIBPNG"}
    BY <1>26 DEF TargetsNeeded, NanaNeeds
  <2>2. l \in o10
    BY <1>l, <1>26, <1>11, <1>12
  <2>3. "LIBJPEG_TURBO" \in o11 /\ "LIBPNG" \in o11
    BY <1>26, <2>2, <1>11
  <2> QED BY <2>1, <2>3, <1>k
<1>27. CASE l = "WXWIDGETS"
  <2>1. TargetsNeeded(l) = {"CURL"}
    BY <1>27 DEF TargetsNeeded, WxWidgetsNeeds
  <2>2. l \in o5
    BY <1>l, <1>27, <1>6, <1>7, <1>8, <1>9, <1>10, <1>11, <1>12
  <2>3. "CURL" \in o6
    BY <1>27, <2>2, <1>6
  <2> QED BY <2>1, <2>3, <1>k
<1>28. CASE l = "FONTCONFIG"
  <2>1. TargetsNeeded(l) = {"FREETYPE2", "LIBJPEG_TURBO", "LIBPNG"}
    BY <1>28 DEF TargetsNeeded, FontconfigNeeds
  <2>2. l \in o4 /\ l \in o10
    BY <1>l, <1>28, <1>5, <1>6, <1>7, <1>8, <1>9, <1>10, <1>11, <1>12
  <2>3. "FREETYPE2" \in o5
    BY <1>28, <2>2, <1>5
  <2>4. "LIBJPEG_TURBO" \in o11 /\ "LIBPNG" \in o11
    BY <1>28, <2>2, <1>11
  <2> QED BY <2>1, <2>3, <2>4, <1>k
<1>29. CASE l = "FLAC"
  <2>1. TargetsNeeded(l) = {"LIBICONV", "VORBIS"}
    BY <1>29 DEF TargetsNeeded, FlacNeeds
  <2>2. l \in o8
    BY <1>l, <1>29, <1>9, <1>10, <1>11, <1>12
  <2>3. "LIBICONV" \in o9 /\ "VORBIS" \in o9
    BY <1>29, <2>2, <1>9
  <2> QED BY <2>1, <2>3, <1>k
<1>30. CASE l = "SFML"
  <2>1. TargetsNeeded(l) = {"FLAC", "FONTCONFIG", "FREETYPE2", "OPENAL"}
    BY <1>30 DEF TargetsNeeded, SfmlNeeds
  <2>2. l \in configured
    BY <1>l, <1>30, <1>1, <1>2, <1>3, <1>4, <1>5, <1>6, <1>7, <1>8, <1>9, <1>10,
       <1>11, <1>12
  <2>3. {"FLAC", "FONTCONFIG", "FREETYPE2", "OPENAL"} \subseteq o1
    BY <1>30, <2>2, <1>1
  <2> QED BY <2>1, <2>3, <1>k
<1>31. CASE l = "VORBIS"
  <2>1. TargetsNeeded(l) = {"OGG"}
    BY <1>31 DEF TargetsNeeded, VorbisNeeds
  <2>2. l \in o9
    BY <1>l, <1>31, <1>10, <1>11, <1>12
  <2>3. CASE l \in o7
    <3>1. "OGG" \in o8
      BY <1>31, <2>3, <1>8
    <3> QED BY <2>1, <3>1, <1>k
  <2>4. CASE l \notin o7
    <3>1. l \notin o8
      BY <1>31, <2>4, <1>8
    <3>2. "OGG" \in o9
      BY <1>31, <2>2, <3>1, <1>9
    <3> QED BY <2>1, <3>2, <1>k
  <2> QED BY <2>3, <2>4
<1>32. CASE l = "CURL"
  <2>1. TargetsNeeded(l) = {"OPENSSL"}
    BY <1>32 DEF TargetsNeeded, CurlNeeds
  <2>2. l \in o6
    BY <1>l, <1>32, <1>7, <1>8, <1>9, <1>10, <1>11, <1>12
  <2>3. CASE l \in o2
    <3>1. "OPENSSL" \in o3
      BY <1>32, <2>3, <1>3
    <3> QED BY <2>1, <3>1, <1>k
  <2>4. CASE l \notin o2
    <3>1. l \notin o5
      BY <1>32, <2>4, <1>3, <1>4, <1>5
    <3>2. "WXWIDGETS" \in o5
      BY <1>32, <2>2, <3>1, <1>6
    <3>3. "WXWIDGETS" \in o12
      BY <3>2, <1>k
    <3>4. l \notin o1 /\ "CPP_HTTPLIB" \notin o1
      BY <1>32, <2>4, <1>2
    <3>5. l \notin configured /\ "CPP_HTTPLIB" \notin configured
      BY <1>32, <3>4, <1>1
    <3> QED BY <1>32, <3>3, <3>5
  <2> QED BY <2>3, <2>4
<1>33. CASE l \notin {"BOOST", "CPP_HTTPLIB", "CURL", "FLAC", "FONTCONFIG",
                     "LIBBITCOIN_SYSTEM", "LIBDSM", "NANA", "SFML", "VORBIS", "WXWIDGETS"}
  BY <1>33 DEF TargetsNeeded
<1> QED BY <1>21, <1>22, <1>24, <1>25, <1>26, <1>27, <1>28, <1>29, <1>30, <1>31, <1>32,
           <1>33

\* For any libraries that config.sh turns on: env.sh turns on what they need, and
\* what that needs, all but OpenSSL when only wxWidgets turned Curl on.
THEOREM EnabledWithWhatItNeeds == Spec => []DependenciesAreOn
<1>1. DependenciesAreOn
  BY NeededAreOn DEF DependenciesAreOn
<1> QED BY <1>1, PTL

-----------------------------------------------------------------------------
(* The cleanup.                                                            *)

\* Where a library stands in the array.
LEMMA PositionIs ==
  ASSUME NEW l \in Libraries PROVE Position(l) \in Nat
<1>1. PICK i \in DOMAIN ProjectLibraries : ProjectLibraries[i] = l
  BY LibrariesAssumption
<1>2. Position(l) \in DOMAIN ProjectLibraries
  BY <1>1 DEF Position
<1>3. DOMAIN ProjectLibraries = 1 .. 37
  BY DEF ProjectLibraries
<1> QED BY <1>2, <1>3

\* The next library is one of those that are left.
LEMMA FirstIsLeft ==
  ASSUME NEW S \in SUBSET Libraries, S # {} PROVE First(S) \in S
<1> DEFINE R == {rr \in Nat \X Nat : rr[1] < rr[2]}
           T == {Position(l) : l \in S}
<1>1. T \subseteq Nat /\ T # {}
  BY PositionIs
<1>2. IsWellFoundedOn(R, Nat)
  BY NatLessThanWellFounded DEF OpToRel
<1>3. \A m, n \in Nat : m < n => <<m, n>> \in R
  OBVIOUS
<1> HIDE DEF R, T
<1>4. PICK n \in T : \A m \in T : <<m, n>> \notin R
  BY <1>1, <1>2, WFMin
<1>5. ASSUME NEW m \in T PROVE n <= m
  <2>1. m \in Nat /\ n \in Nat /\ ~(m < n)
    BY <1>1, <1>3, <1>4
  <2> QED BY <2>1
<1>6. PICK l \in S : n = Position(l)
  BY DEF T
<1>7. \A m \in S : Position(l) <= Position(m)
  BY <1>5, <1>6 DEF T
<1> QED BY <1>7 DEF First

\* A library loses its cleanup entry only when its archives and what comes before the
\* entry are gone, and its place in the list only when the entry is: what is no
\* longer known to cleanup.sh is no longer there.  A create or update that is cut short
\* brings no archive back without the entry.
GoneInv ==
  \A l \in Libraries :
    /\ l \notin project.mentions["cleanup entry"] =>
         /\ \A p \in Archives(l) : project.archive[p] = "none"
         /\ synced # "cut" => \A i \in 1 .. 3 : l \notin project.mentions[Places[i]]
    /\ l \notin project.mentions["libraries.sh"] =>
         l \notin project.mentions["cleanup entry"]

\* The cleanup has struck the library it is at out of the places before the next
\* one, and removed its archives before that.
StruckInv ==
  run.at = "cleanup" /\ run.step # 0 =>
    /\ run.left # {}
    /\ \A i \in 1 .. 9 : i < run.step => First(run.left) \notin project.mentions[Places[i]]
    /\ \A p \in Archives(First(run.left)) : project.archive[p] = "none"

\* What is off is still to come or no longer listed.
LeftInv ==
  /\ run.at = "cleanup" =>
       \A l \in Libraries : Off(l) => l \in run.left \/ l \notin Listed
  /\ run.at = "compile" /\ run.cleaned =>
       \A l \in Libraries : Off(l) => l \notin Listed

\* What is off and has been gone through is mentioned nowhere.
ThroughInv ==
  \A l \in Libraries :
    /\ run.at = "cleanup" \/ (run.at = "compile" /\ run.cleaned)
    /\ l \in run.through /\ Off(l)
    /\ run.at = "cleanup" => l \notin run.left
    => \A i \in 1 .. 9 : l \notin project.mentions[Places[i]]

\* What holds between any two commands as far as the cleanup goes.
CleanupInv ==
  /\ ProjectInv
  /\ run.step \in 0 .. 9 /\ run.left \subseteq Libraries
  /\ GoneInv /\ StruckInv /\ LeftInv /\ ThroughInv

\* The record of no script counts nothing and goes through nothing.
LEMMA NoRunCleansNothing ==
  /\ NoRun.step \in 0 .. 9 /\ NoRun.left \subseteq Libraries
  /\ NoRun.at = "" /\ NoRun.step = 0
<1>1. NoRun.step = 0 /\ NoRun.left = {} /\ NoRun.at = ""
  BY DEF NoRun
<1>2. NoRun.step \in 0 .. 9
  <2>1. \A n : n = 0 => n \in 0 .. 9
    OBVIOUS
  <2> QED BY <1>1, <2>1, Zenon
<1>3. NoRun.left \subseteq Libraries
  BY <1>1
<1> QED BY <1>1, <1>2, <1>3

\* At first there is nothing to be cleaned up.
LEMMA CleanupInitial == Init => CleanupInv
<1> SUFFICES ASSUME Init PROVE CleanupInv
  OBVIOUS
<1>1. run = NoRun /\ synced = "cut"
  BY DEF Init
<1>2. \A l \in Libraries : \A p \in Archives(l) : project.archive[p] = "none"
  BY DEF Init, Packages
<1>3. \A m \in Place : project.mentions[m] = {}
  BY DEF Init
<1>4. GoneInv
  BY <1>1, <1>2, <1>3, PlacesAre DEF GoneInv
<1> QED BY <1>1, <1>4, ProjectInitial, NoRunCleansNothing
        DEF CleanupInv, StruckInv, LeftInv, ThroughInv

\* Steps of everything but a cleanup.
LEMMA OutsideStep ==
  ASSUME CleanupInv, ProjectInv', GoneInv',
         run'.step \in 0 .. 9, run'.left \subseteq Libraries,
         run'.at = "cleanup" => run' = run /\ UNCHANGED <<project, synced>>,
         run'.at = "compile" /\ run'.cleaned => run' = run /\ UNCHANGED project
  PROVE  CleanupInv'
<1>1. StruckInv'
  BY DEF CleanupInv, StruckInv
<1>2. LeftInv'
  BY DEF CleanupInv, LeftInv, Off, Listed
<1>3. ThroughInv'
  BY DEF CleanupInv, ThroughInv, Off
<1> QED BY <1>1, <1>2, <1>3 DEF CleanupInv

\* Steps that are not a command of a script.
LEMMA IdleCleanup ==
  ASSUME CleanupInv,
         \/ UNCHANGED vars
         \/ InRepository /\ UNCHANGED <<project, config, run, synced, spared, scripts>>
         \/ \E l \in Libraries : Configure(l)
         \/ SyncedSupport \/ Compile \/ Interrupt
  PROVE  CleanupInv'
<1>1. ProjectInv'
  BY IdleStep DEF CleanupInv
<1>2. UNCHANGED <<project, synced>> /\ GoneInv'
  BY DEF vars, Configure, SyncedSupport, Compile, Interrupt, CleanupInv, GoneInv
<1>3. CASE UNCHANGED run
  BY <1>1, <1>2, <1>3, OutsideStep DEF CleanupInv
<1>4. CASE run' = NoRun
  BY <1>1, <1>2, <1>4, NoRunCleansNothing, OutsideStep
<1>5. CASE SyncedSupport
  <2>1. run' = [run EXCEPT !.at = "versions"]
    BY <1>5 DEF SyncedSupport, GoTo
  <2>2. run'.at = "versions" /\ run'.step = run.step /\ run'.left = run.left
    BY <2>1 DEF CleanupInv, ProjectInv, RunType
  <2> QED BY <1>1, <1>2, <2>2, OutsideStep DEF CleanupInv
<1> QED BY <1>3, <1>4, <1>5 DEF vars, Configure, Compile, Interrupt

\* A create or update, from its start to its last command but one.
LEMMA SyncCleanup ==
  ASSUME CleanupInv,
         \/ Create \/ Update \/ SyncCmake \/ SyncScripts
         \/ \E p \in Packages : SyncArchive(p)
         \/ CreateVersions \/ ProcessFiles
  PROVE  CleanupInv'
<1>1. ProjectInv'
  BY StartSyncStep, SyncCmakeStep, SyncScriptsStep, SyncArchiveStep, CreateVersionsStep,
     ProcessFilesStep DEF CleanupInv
<1>2. synced' = "cut"
  BY DEF CleanupInv, ProjectInv, SyncInv, Create, Update, SyncCmake, SyncScripts, SyncArchive,
         CreateVersions, ProcessFiles, Syncing
<1>a. ASSUME NEW places, NEW libraries, "cleanup entry" \notin places,
             "libraries.sh" \notin places,
             UNCHANGED project.archive,
             \A m \in {"cleanup entry", "libraries.sh"} :
               project'.mentions[m] = Mention(places, libraries)[m]
      PROVE  GoneInv'
  <2>1. UNCHANGED <<project.mentions["cleanup entry"], project.mentions["libraries.sh"]>>
    BY <1>a, PlacesAre DEF Mention
  <2> QED BY <1>2, <1>a, <2>1 DEF CleanupInv, GoneInv
<1>b. ASSUME \A m \in {"cleanup entry", "libraries.sh"} : project'.mentions[m] = Libraries
      PROVE  GoneInv'
  BY <1>b DEF GoneInv
<1>g. GoneInv'
  <2> USE DEF CleanupInv, ProjectInv, ProjectType
  <2>1. CASE Create \/ Update
    <3>1. UNCHANGED <<project.archive, project.mentions>>
      BY <2>1 DEF Create, Update
    <3> QED BY <1>2, <3>1 DEF GoneInv
  <2>2. CASE SyncCmake
    <3> DEFINE G == {"libraries.cmake", "options.cmake", "hashes.cmake", "cmake file"}
               L == Mention(G, Libraries)
    <3>1. L = [m \in Place |-> L[m]]
      BY DEF Mention
    <3> HIDE DEF L
    <3>2. /\ UNCHANGED project.archive
          /\ project'.mentions = [L EXCEPT !["versions.cmake"] = {}]
      BY <2>2 DEF SyncCmake, L
    <3>3. \A m \in {"cleanup entry", "libraries.sh"} : project'.mentions[m] = L[m]
      BY <3>1, <3>2, PlacesAre
    <3> QED BY <1>a, <3>2, <3>3 DEF L
  <2>3. CASE SyncScripts
    <3> DEFINE G == {"cleanup entry", "libraries.sh", "versions.sh"}
    <3>1. project'.mentions = Mention(G, Libraries)
      BY <2>3 DEF SyncScripts
    <3> QED BY <1>b, <3>1, PlacesAre DEF Mention
  <2>4. ASSUME NEW p \in Packages, SyncArchive(p) PROVE GoneInv'
    <3>1. project'.mentions = project.mentions
      BY <2>4 DEF SyncArchive
    <3> QED BY <1>b, <2>4, <3>1 DEF SyncArchive, Syncing, SyncInv, Brought
  <2>5. CASE CreateVersions
    <3>1. /\ UNCHANGED project.archive
          /\ project'.mentions = Mention({"versions.cmake"}, Libraries)
      BY <2>5 DEF CreateVersions
    <3> QED BY <1>a, <3>1
  <2>6. CASE ProcessFiles
    <3>1. /\ UNCHANGED project.archive
          /\ project'.mentions = Mention({"CMakeLists.txt"}, {})
      BY <2>6 DEF ProcessFiles
    <3> QED BY <1>a, <3>1
  <2> QED BY <2>1, <2>2, <2>3, <2>4, <2>5, <2>6
<1>3. CASE Create \/ Update
  <2>1. PICK script \in {"create", "update"} : run' = [NoRun EXCEPT !.script = script,
                                                                    !.at = "cmake"]
    BY <1>3 DEF Create, Update, StartScript
  <2>2. run'.at = "cmake" /\ run'.step = 0 /\ run'.left = {}
    BY <2>1 DEF NoRun
  <2> QED BY <1>1, <1>g, <2>2, OutsideStep
<1>4. CASE ~(Create \/ Update)
  <2>1. PICK at \in {"scripts", "support", "files", "enable"} :
          \E toSync : run' = [run EXCEPT !.at = at, !.toSync = toSync]
    <3>1. ASSUME NEW at, run' = [run EXCEPT !.at = at]
          PROVE  run' = [run EXCEPT !.at = at, !.toSync = run.toSync]
      BY <3>1 DEF CleanupInv, ProjectInv, RunType
    <3>2. ASSUME NEW p, run.at = "support", run' = [run EXCEPT !.toSync = @ \ {p}]
          PROVE  run' = [run EXCEPT !.at = "support", !.toSync = run.toSync \ {p}]
      BY <3>2 DEF CleanupInv, ProjectInv, RunType
    <3>3. SyncScripts => run' = [run EXCEPT !.at = "support", !.toSync = Packages]
      BY DEF SyncScripts
    <3> QED BY <1>4, <3>1, <3>2, <3>3
            DEF SyncCmake, SyncArchive, CreateVersions, ProcessFiles, GoTo, Syncing
  <2>2. run'.at = at /\ run'.step = run.step /\ run'.left = run.left
    BY <2>1 DEF CleanupInv, ProjectInv, RunType
  <2> QED BY <1>1, <1>g, <2>2, OutsideStep DEF CleanupInv
<1> QED BY <1>3, <1>4

\* At its end everything is listed again.
LEMMA UpdateCmakeListsCleanup ==
  ASSUME CleanupInv, UpdateCmakeLists PROVE CleanupInv'
<1> DEFINE M == Mention({"CMakeLists.txt"}, Libraries)
<1>1. ProjectInv'
  BY UpdateCmakeListsStep DEF CleanupInv
<1>2. run' = NoRun /\ project' = [project EXCEPT !.mentions = M]
      /\ run.script \in {"create", "update"} /\ run.at = "enable"
  BY DEF UpdateCmakeLists, Syncing
<1>3. \A m \in Place : M[m] = IF m = "CMakeLists.txt" THEN Libraries ELSE project.mentions[m]
  BY MentionIs DEF CleanupInv, ProjectInv
<1> HIDE DEF M
<1>4. project'.mentions = M
  BY <1>2 DEF CleanupInv, ProjectInv, ProjectType
<1>5. \A m \in Place : project'.mentions[m] = Libraries
  BY <1>2, <1>3, <1>4, PlacesAre DEF CleanupInv, ProjectInv, SyncInv, Brought
<1>6. GoneInv'
  BY <1>5, PlacesAre DEF GoneInv
<1>7. run'.step \in 0 .. 9 /\ run'.left \subseteq Libraries /\ run'.at = ""
  BY <1>2, NoRunCleansNothing
<1>8. StruckInv' /\ LeftInv' /\ ThroughInv'
  BY <1>7 DEF StruckInv, LeftInv, ThroughInv
<1> QED BY <1>1, <1>6, <1>7, <1>8 DEF CleanupInv

\* A cleanup begins with everything that is listed.
LEMMA StartInProjectCleanup ==
  ASSUME CleanupInv, NEW script \in {"make", "cleanup"}, StartInProject(script)
  PROVE  CleanupInv'
<1>1. ProjectInv'
  BY StartInProjectStep DEF CleanupInv
<1>2. UNCHANGED <<project, synced>>
  BY DEF StartInProject
<1>3. /\ run'.step = 0 /\ ~run'.cleaned
      /\ \/ run'.at = "cleanup" /\ run'.left = Listed /\ run'.through = Listed
         \/ run'.at = "compile" /\ run'.left = {}
  <2> DEFINE on == Resolve(config)
  <2>1. \/ run' = [NoRun EXCEPT !.script = script, !.at = "cleanup", !.on = on,
                                !.left = Listed, !.through = Listed]
        \/ run' = [NoRun EXCEPT !.script = script, !.at = "compile", !.on = on]
    BY DEF StartInProject
  <2> HIDE DEF on
  <2>2. CASE run' = [NoRun EXCEPT !.script = script, !.at = "cleanup", !.on = on,
                                  !.left = Listed, !.through = Listed]
    BY <2>2 DEF NoRun
  <2>3. CASE run' = [NoRun EXCEPT !.script = script, !.at = "compile", !.on = on]
    BY <2>3 DEF NoRun
  <2> QED BY <2>1, <2>2, <2>3
<1>4. Listed \subseteq Libraries
  BY PlacesAre DEF Listed, CleanupInv, ProjectInv, ProjectType
<1>5. GoneInv'
  BY <1>2 DEF CleanupInv, GoneInv
<1>6. StruckInv' /\ LeftInv' /\ ThroughInv'
  BY <1>2, <1>3 DEF StruckInv, LeftInv, ThroughInv, Listed
<1> QED BY <1>1, <1>3, <1>4, <1>5, <1>6 DEF CleanupInv

\* The archives there are are those of the libraries.
LEMMA ArchivesAre == \A l \in Libraries : Archives(l) \subseteq Packages
BY DEF Packages

\* An archive fewer harms nothing.
LEMMA RemoveArchiveCleanup ==
  ASSUME CleanupInv, NEW p \in Packages, RemoveArchive(p) PROVE CleanupInv'
<1>1. ProjectInv'
  BY RemoveArchiveStep DEF CleanupInv
<1>2. /\ project' = [project EXCEPT !.archive[p] = "none"]
      /\ UNCHANGED <<run, synced>>
  BY DEF RemoveArchive
<1>3. /\ project'.mentions = project.mentions
      /\ \A q \in Packages : project.archive[q] = "none" => project'.archive[q] = "none"
  BY <1>2 DEF CleanupInv, ProjectInv, ProjectType
<1>4. GoneInv'
  BY <1>2, <1>3, ArchivesAre DEF CleanupInv, GoneInv
<1>5. run.left # {} => First(run.left) \in Libraries
  BY FirstIsLeft DEF CleanupInv
<1>6. StruckInv'
  BY <1>2, <1>3, <1>5, ArchivesAre DEF CleanupInv, StruckInv
<1>7. LeftInv'
  BY <1>2, <1>3 DEF CleanupInv, LeftInv, Off, Listed
<1>8. ThroughInv'
  BY <1>2, <1>3 DEF CleanupInv, ThroughInv, Off
<1> QED BY <1>1, <1>2, <1>4, <1>6, <1>7, <1>8 DEF CleanupInv

\* The cleanup goes on to the next library when this one is on or not listed.
LEMMA NextLibraryKeeps ==
  ASSUME CleanupInv, run.at = "cleanup", run.left # {}, NextLibrary,
         Off(First(run.left)) =>
           \A i \in 1 .. 9 : First(run.left) \notin project'.mentions[Places[i]],
         \A l \in Libraries, i \in 1 .. 9 :
           l \notin project.mentions[Places[i]] => l \notin project'.mentions[Places[i]]
  PROVE  /\ StruckInv' /\ LeftInv' /\ ThroughInv'
         /\ run'.step \in 0 .. 9 /\ run'.left \subseteq Libraries
<1>1. /\ run'.at = "cleanup" /\ run'.on = run.on /\ run'.through = run.through
      /\ run'.left = run.left \ {First(run.left)} /\ run'.step = 0
  BY DEF NextLibrary, CleanupInv, ProjectInv, RunType
<1>2. run'.step \in 0 .. 9 /\ run'.left \subseteq Libraries
  BY <1>1 DEF CleanupInv
<1>3. Places[5] = "libraries.sh" /\ 5 \in 1 .. 9
  <2>1. Places[5] = "libraries.sh"
    BY DEF Places
  <2>2. 5 \in 1 .. 9
    OBVIOUS
  <2> QED BY <2>1, <2>2, Zenon
<1>4. StruckInv'
  BY <1>1 DEF StruckInv
<1>5. LeftInv'
  <2>1. Off(First(run.left)) => First(run.left) \notin Listed'
    BY <1>3 DEF Listed
  <2>2. \A l \in Libraries : l \notin Listed => l \notin Listed'
    BY <1>3 DEF Listed
  <2> QED BY <1>1, <2>1, <2>2 DEF CleanupInv, LeftInv, Off
<1>6. ThroughInv'
  BY <1>1 DEF CleanupInv, ThroughInv, Off
<1> QED BY <1>2, <1>4, <1>5, <1>6

\* The places in their order.
LEMMA PlaceAt ==
  /\ \A i \in 1 .. 9 : /\ Places[i] \in Place
                       /\ Places[i] = "cleanup entry" <=> i = 4
                       /\ Places[i] = "libraries.sh" <=> i = 5
  /\ Places[4] = "cleanup entry" /\ Places[5] = "libraries.sh"
<1>1. \A i \in 1 .. 9 : i \in {1, 2, 3, 4, 5, 6, 7, 8, 9}
  OBVIOUS
<1>2. /\ Places[1] = "libraries.cmake" /\ Places[2] = "CMakeLists.txt"
      /\ Places[3] = "options.cmake" /\ Places[4] = "cleanup entry"
      /\ Places[5] = "libraries.sh" /\ Places[6] = "hashes.cmake"
      /\ Places[7] = "versions.cmake" /\ Places[8] = "versions.sh"
      /\ Places[9] = "cmake file"
  BY DEF Places
<1> QED BY <1>1, <1>2, PlacesAre

\* It strikes a library out only when its archives are gone.
LEMMA ArchivesRemovedCleanup ==
  ASSUME CleanupInv, ArchivesRemoved PROVE CleanupInv'
<1> DEFINE f == First(run.left)
<1>1. ProjectInv'
  BY ArchivesRemovedStep DEF CleanupInv
<1>2. /\ run.at = "cleanup" /\ run.left # {} /\ UNCHANGED <<project, synced>>
      /\ \A p \in Removed(f) \cap Packages : project.archive[p] = "none"
      /\ IF Off(f) THEN run' = [run EXCEPT !.step = 1] ELSE NextLibrary
  BY DEF ArchivesRemoved, Cleaning
<1>3. f \in Libraries
  BY <1>2, FirstIsLeft DEF CleanupInv
<1>4. GoneInv'
  BY <1>2 DEF CleanupInv, GoneInv
<1>5. CASE ~Off(f)
  BY <1>1, <1>2, <1>4, <1>5, NextLibraryKeeps DEF CleanupInv
<1>6. CASE Off(f)
  <2>1. /\ run'.at = "cleanup" /\ run'.on = run.on
        /\ run'.left = run.left /\ run'.through = run.through /\ run'.step = 1
    BY <1>2, <1>6 DEF CleanupInv, ProjectInv, RunType
  <2>2. \A p \in Archives(f) : project.archive[p] = "none"
    BY <1>2, <1>3, <1>6, ArchivesAre DEF Removed, CleanupInv, GoneInv
  <2>3. StruckInv'
    BY <1>2, <2>1, <2>2 DEF StruckInv
  <2>4. LeftInv'
    BY <1>2, <2>1 DEF CleanupInv, LeftInv, Off, Listed
  <2>5. run'.step \in 0 .. 9 /\ run'.left \subseteq Libraries
    BY <2>1 DEF CleanupInv
  <2>6. ThroughInv'
    BY <1>2, <2>1 DEF CleanupInv, ThroughInv, Off
  <2> QED BY <1>1, <1>4, <2>3, <2>4, <2>5, <2>6 DEF CleanupInv
<1> QED BY <1>5, <1>6

\* What is struck out of the next place is gone from those before it.
LEMMA StrikeOutCleanup ==
  ASSUME CleanupInv, StrikeOut PROVE CleanupInv'
<1> DEFINE f == First(run.left)
           m == Places[run.step]
<1>1. ProjectInv'
  BY StrikeOutStep DEF CleanupInv
<1>2. /\ run.at = "cleanup" /\ run.left # {} /\ run.step \in 1 .. 9 /\ UNCHANGED synced
      /\ project' = [project EXCEPT !.mentions[m] = @ \ {f}]
      /\ IF run.step = 9 THEN NextLibrary ELSE run' = [run EXCEPT !.step = @ + 1]
  <2>1. Len(Places) = 9
    BY DEF Places
  <2>2. run.step \in 0 .. 9
    BY DEF CleanupInv
  <2>3. run.step > 0 => run.step \in 1 .. 9
    BY <2>2
  <2> QED BY <2>1, <2>3 DEF StrikeOut, Cleaning
<1>3. /\ project'.archive = project.archive
      /\ \A x \in Place : project'.mentions[x] =
           IF x = m THEN project.mentions[x] \ {f} ELSE project.mentions[x]
  BY <1>2 DEF CleanupInv, ProjectInv, ProjectType
<1>4. m \in Place /\ (m = "cleanup entry" <=> run.step = 4) /\ (m = "libraries.sh" <=> run.step = 5)
  BY <1>2, PlaceAt
<1>5. f \in Libraries
  BY <1>2, FirstIsLeft DEF CleanupInv
<1>6. /\ \A i \in 1 .. 9 : i < run.step => f \notin project.mentions[Places[i]]
      /\ \A p \in Archives(f) : project.archive[p] = "none"
  BY <1>2 DEF CleanupInv, StruckInv
<1> HIDE DEF f, m
<1>7. \A x \in Place :
        /\ project'.mentions[x] \subseteq project.mentions[x]
        /\ \A l \in Libraries : l # f => (l \in project'.mentions[x] <=> l \in project.mentions[x])
        /\ f \in project'.mentions[x] => f \in project.mentions[x] /\ x # m
  BY <1>3
<1>8. f \notin project'.mentions[m]
  BY <1>3, <1>4
<1>9. GoneInv'
  <2> SUFFICES ASSUME NEW l \in Libraries
               PROVE  /\ l \notin project'.mentions["cleanup entry"] =>
                           /\ \A p \in Archives(l) : project'.archive[p] = "none"
                           /\ synced # "cut" =>
                                \A i \in 1 .. 3 : l \notin project'.mentions[Places[i]]
                      /\ l \notin project'.mentions["libraries.sh"] =>
                           l \notin project'.mentions["cleanup entry"]
    BY <1>2 DEF GoneInv
  <2>1. /\ l \notin project.mentions["cleanup entry"] =>
             /\ \A p \in Archives(l) : project.archive[p] = "none"
             /\ synced # "cut" => \A i \in 1 .. 3 : l \notin project.mentions[Places[i]]
        /\ l \notin project.mentions["libraries.sh"] =>
             l \notin project.mentions["cleanup entry"]
    BY DEF CleanupInv, GoneInv
  <2>2. \A i \in 1 .. 3 : Places[i] \in Place
    <3>1. \A i \in 1 .. 3 : i \in 1 .. 9
      OBVIOUS
    <3> QED BY <3>1, PlaceAt
  <2>3. CASE l # f
    BY <1>3, <1>7, <2>1, <2>2, <2>3, PlacesAre
  <2>4. CASE l = f
    <3>1. \A i \in 1 .. 3 : run.step = 4 => l \notin project.mentions[Places[i]]
      BY <1>6, <2>4
    <3>2. run.step = 5 => l \notin project.mentions[Places[4]]
      BY <1>6, <2>4
    <3>3. /\ l \notin project'.mentions["cleanup entry"] =>
               l \notin project.mentions["cleanup entry"] \/ run.step = 4
          /\ l \notin project'.mentions["libraries.sh"] =>
               l \notin project.mentions["libraries.sh"] \/ run.step = 5
      BY <1>3, <1>4, PlacesAre
    <3>4. l \notin project'.mentions["libraries.sh"] => l \notin project'.mentions["cleanup entry"]
      BY <1>7, <2>1, <3>2, <3>3, PlaceAt, PlacesAre
    <3>5. \A i \in 1 .. 3 :
            l \notin project.mentions[Places[i]] => l \notin project'.mentions[Places[i]]
      BY <1>7, <2>2
    <3>6. ASSUME l \notin project'.mentions["cleanup entry"]
          PROVE  /\ \A p \in Archives(l) : project'.archive[p] = "none"
                 /\ synced # "cut" =>
                      \A i \in 1 .. 3 : l \notin project'.mentions[Places[i]]
      BY <1>3, <1>6, <2>1, <2>4, <3>1, <3>3, <3>5, <3>6
    <3> QED BY <3>4, <3>6
  <2> QED BY <2>3, <2>4
<1>10. \A l \in Libraries : l \notin Listed => l \notin Listed'
  BY <1>7, PlacesAre DEF Listed
<1>a. \A l \in Libraries, i \in 1 .. 9 :
        l \notin project.mentions[Places[i]] => l \notin project'.mentions[Places[i]]
  BY <1>7, PlaceAt
<1>11. CASE run.step = 9
  <2>1. \A i \in 1 .. 9 : f \notin project'.mentions[Places[i]]
    <3>1. ASSUME NEW i \in 1 .. 9, i < 9 PROVE f \notin project'.mentions[Places[i]]
      BY <1>5, <1>6, <1>11, <1>a, <3>1
    <3>2. f \notin project'.mentions[Places[9]]
      BY <1>8, <1>11 DEF m
    <3> QED BY <3>1, <3>2
  <2> QED BY <1>1, <1>2, <1>9, <1>11, <1>a, <2>1, NextLibraryKeeps DEF f, CleanupInv
<1>12. CASE run.step # 9
  <2>1. /\ run'.at = "cleanup" /\ run'.on = run.on
        /\ run'.left = run.left /\ run'.through = run.through /\ run'.step = run.step + 1
    BY <1>2, <1>12 DEF CleanupInv, ProjectInv, RunType
  <2>2. ASSUME NEW i \in 1 .. 9, i < run.step + 1
        PROVE  f \notin project'.mentions[Places[i]]
    <3>1. Places[i] \in Place
      BY PlaceAt
    <3>2. i = run.step \/ i < run.step
      BY <1>2, <2>2
    <3>3. CASE i = run.step
      BY <1>8, <3>3 DEF m
    <3>4. CASE i < run.step
      BY <1>6, <1>7, <3>1, <3>4
    <3> QED BY <3>2, <3>3, <3>4
  <2>3. StruckInv'
    BY <1>2, <1>3, <1>6, <2>1, <2>2 DEF StruckInv, f
  <2>4. LeftInv'
    BY <1>2, <1>10, <2>1 DEF CleanupInv, LeftInv, Off
  <2>5. run'.step \in 0 .. 9 /\ run'.left \subseteq Libraries
    BY <1>2, <1>12, <2>1 DEF CleanupInv
  <2>6. ThroughInv'
    BY <1>2, <1>a, <2>1 DEF CleanupInv, ThroughInv, Off
  <2> QED BY <1>1, <1>9, <2>3, <2>4, <2>5, <2>6 DEF CleanupInv
<1> QED BY <1>11, <1>12

\* A cleanup that is through has nothing left that is off.
LEMMA CleanedUpCleanup ==
  ASSUME CleanupInv, CleanedUp PROVE CleanupInv'
<1>1. ProjectInv'
  BY CleanedUpStep DEF CleanupInv
<1>2. /\ run.at = "cleanup" /\ run.left = {} /\ UNCHANGED synced
      /\ \/ run' = NoRun /\ UNCHANGED project
         \/ /\ project' = [project EXCEPT !.cleanup = FALSE]
            /\ run' = [run EXCEPT !.at = "compile", !.cleaned = TRUE]
  BY DEF CleanedUp
<1>3. UNCHANGED <<project.archive, project.mentions>>
  BY <1>2 DEF CleanupInv, ProjectInv, ProjectType
<1>4. GoneInv'
  BY <1>2, <1>3 DEF CleanupInv, GoneInv
<1>5. CASE run' = NoRun
  BY <1>1, <1>4, <1>5, NoRunCleansNothing DEF CleanupInv, StruckInv, LeftInv, ThroughInv
<1>6. CASE run' = [run EXCEPT !.at = "compile", !.cleaned = TRUE]
  <2>1. /\ run'.at = "compile" /\ run'.on = run.on
        /\ run'.left = run.left /\ run'.through = run.through /\ run'.step = run.step
    BY <1>6 DEF CleanupInv, ProjectInv, RunType
  <2>2. StruckInv' /\ LeftInv' /\ ThroughInv'
    BY <1>2, <1>3, <2>1 DEF CleanupInv, StruckInv, LeftInv, ThroughInv, Off, Listed
  <2> QED BY <1>1, <1>4, <2>1, <2>2 DEF CleanupInv
<1> QED BY <1>2, <1>5, <1>6

\* The invariant of the cleanup is inductive.
LEMMA CleanupStep == ASSUME CleanupInv, [Next]_vars PROVE CleanupInv'
BY IdleCleanup, SyncCleanup, UpdateCmakeListsCleanup, StartInProjectCleanup,
   RemoveArchiveCleanup, ArchivesRemovedCleanup, StrikeOutCleanup, CleanedUpCleanup
   DEF Next

\* When make_unix.sh goes on to the build after a cleanup, whatever was interrupted
\* before: no archive of what is off is there, what the cleanup went through is
\* mentioned nowhere, and what it no longer knew is included and listed nowhere, unless
\* an update was cut short.
THEOREM CleanupLeavesNothing == Spec => []CleanupIsComplete
<1>1. CleanupInv => CleanupIsComplete
  <2> SUFFICES ASSUME CleanupInv, run.at = "compile", run.cleaned,
                      NEW l \in Libraries, Off(l)
               PROVE  /\ \A p \in Archives(l) : project.archive[p] = "none"
                      /\ l \in run.through => \A m \in Place : l \notin project.mentions[m]
                      /\ synced # "cut" =>
                           \A i \in 1 .. 5 : l \notin project.mentions[Places[i]]
    BY DEF CleanupIsComplete, Off
  <2>1. l \notin project.mentions["libraries.sh"]
    BY DEF CleanupInv, LeftInv, Listed
  <2>2. /\ l \notin project.mentions["cleanup entry"]
        /\ \A p \in Archives(l) : project.archive[p] = "none"
        /\ synced # "cut" => \A i \in 1 .. 3 : l \notin project.mentions[Places[i]]
    BY <2>1 DEF CleanupInv, GoneInv
  <2>3. \A i \in 1 .. 5 : i \in 1 .. 3 \/ i = 4 \/ i = 5
    OBVIOUS
  <2>4. l \in run.through => \A i \in 1 .. 9 : l \notin project.mentions[Places[i]]
    BY DEF CleanupInv, ThroughInv
  <2>5. DOMAIN Places = 1 .. 9
    BY DEF Places
  <2>6. l \in run.through => \A m \in Place : l \notin project.mentions[m]
    BY <2>4, <2>5 DEF Place
  <2> QED BY <2>1, <2>2, <2>3, <2>6, PlaceAt
<1> QED BY CleanupInitial, CleanupStep, <1>1, PTL DEF Spec
=============================================================================
