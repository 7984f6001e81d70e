---------------------------- MODULE BuildSystem -----------------------------
(***************************************************************************)
(* A project made with cpp-build-system through its life: create_project,  *)
(* config.sh edited, make_unix with the cleanup.sh it runs before the      *)
(* first build, update_project; and the repository it is made from, where  *)
(* grab_packages may run at the same time.  Any script may be interrupted  *)
(* between any two of its commands.                                        *)
(***************************************************************************)
EXTENDS PackageStore

CONSTANTS Kept,          \* PROJECT_KEEP_<library>=1 in config.sh
          MaxGrabs,      \* bound: scripts run in the repository
          MaxScripts,    \* bound: scripts run in or on the project
          MaxInterrupts  \* bound: scripts interrupted

ASSUME BuildSystemAssumption ==
  Kept \subseteq Libraries /\ MaxGrabs \in Nat /\ MaxScripts \in Nat /\ MaxInterrupts \in Nat

VARIABLES project,  \* what the project's directory holds
          config,   \* the libraries config.sh sets to ON
          run,      \* the script that runs in the project; through is history: the
                    \* libraries its cleanup goes through
          synced,   \* the last create or update: "cut" before its end, "whole" when it
                    \* found every archive good, "short" when it did not
          spared,   \* the archives that it found good and every cleanup since then had a
                    \* use for
          grabs, scripts, interrupts  \* counted for the bounds

vars == <<storeVars, project, config, run, synced, spared, grabs, scripts, interrupts>>

\* The places that mention a library, in the order cleanup.sh strikes it out.
\* (That sed finds no version of Boost, which is written in three parts, nor the
\* hash of TESTING, which goes by another name, is left out.)
Places == <<"libraries.cmake", "CMakeLists.txt", "options.cmake", "cleanup entry",
            "libraries.sh", "hashes.cmake", "versions.cmake", "versions.sh", "cmake file">>

Place == {Places[i] : i \in DOMAIN Places}

NoRun == [script |-> "none", at |-> "", on |-> {}, left |-> {}, through |-> {},
          step |-> 0, toSync |-> {}, cleaned |-> FALSE]

Init ==
  /\ StoreInit
  /\ project = [there |-> FALSE, configured |-> FALSE, cleanup |-> FALSE,
                archive |-> [p \in Packages |-> "none"],
                mentions |-> [m \in Place |-> {}]]
  /\ config = {}
  /\ run = NoRun
  /\ synced = "cut"
  /\ spared = {}
  /\ grabs = 0 /\ scripts = 0 /\ interrupts = 0

Mention(places, libraries) ==
  [m \in Place |-> IF m \in places THEN libraries ELSE project.mentions[m]]

StartScript(script, at) ==
  /\ run = NoRun /\ scripts < MaxScripts
  /\ scripts' = scripts + 1
  /\ run' = [NoRun EXCEPT !.script = script, !.at = at]

-----------------------------------------------------------------------------
(* create_project.sh and update_project.sh.                                *)

Create ==
  /\ ~project.there
  /\ StartScript("create", "cmake")
  /\ project' = [project EXCEPT !.there = TRUE]
  /\ synced' = "cut"
  /\ UNCHANGED <<storeVars, config, spared, grabs, interrupts>>

\* mkdir -p comes before the test that the directory is there.
Update ==
  /\ StartScript("update", "cmake")
  /\ project' = [project EXCEPT !.there = TRUE]
  /\ synced' = "cut"
  /\ UNCHANGED <<storeVars, config, spared, grabs, interrupts>>

Syncing(at) == run.script \in {"create", "update"} /\ run.at = at

GoTo(at) == run' = [run EXCEPT !.at = at]

\* sync_common: rsync --delete of cmake/, which takes versions.cmake along ...
SyncCmake ==
  /\ Syncing("cmake") /\ GoTo("scripts")
  /\ project' = [project EXCEPT !.mentions =
       [Mention({"libraries.cmake", "options.cmake", "hashes.cmake", "cmake file"}, Libraries)
        EXCEPT !["versions.cmake"] = {}]]
  /\ UNCHANGED <<storeVars, config, synced, spared, grabs, scripts, interrupts>>

\* ... of scripts/, cleanup.sh included ...
SyncScripts ==
  /\ Syncing("scripts")
  /\ run' = [run EXCEPT !.at = "support", !.toSync = Packages]
  /\ project' = [project EXCEPT
       !.mentions = Mention({"cleanup entry", "libraries.sh", "versions.sh"}, Libraries),
       !.cleanup = TRUE]
  /\ UNCHANGED <<storeVars, config, synced, spared, grabs, scripts, interrupts>>

\* ... and of support/, a file at a time, as the store has it just then.
SyncArchive(p) ==
  /\ Syncing("support") /\ p \in run.toSync
  /\ run' = [run EXCEPT !.toSync = @ \ {p}]
  /\ project' = [project EXCEPT !.archive[p] = store[p]]
  /\ UNCHANGED <<storeVars, config, synced, spared, grabs, scripts, interrupts>>

SyncedSupport ==
  /\ Syncing("support") /\ run.toSync = {}
  /\ GoTo("versions")
  /\ UNCHANGED <<storeVars, project, config, synced, spared, grabs, scripts, interrupts>>

CreateVersions ==
  /\ Syncing("versions") /\ GoTo("files")
  /\ project' = [project EXCEPT !.mentions = Mention({"versions.cmake"}, Libraries)]
  /\ UNCHANGED <<storeVars, config, synced, spared, grabs, scripts, interrupts>>

\* process_file: the template's CMakeLists.txt names no library; config.sh is
\* written by create only.
ProcessFiles ==
  /\ Syncing("files") /\ GoTo("enable")
  /\ project' = [project EXCEPT !.mentions = Mention({"CMakeLists.txt"}, {}),
                                !.configured = @ \/ run.script = "create"]
  /\ UNCHANGED <<storeVars, config, synced, spared, grabs, scripts, interrupts>>

UpdateCmakeLists ==
  /\ Syncing("enable")
  /\ project' = [project EXCEPT !.mentions = Mention({"CMakeLists.txt"}, Libraries)]
  /\ run' = NoRun
  /\ synced' = (IF \A p \in Packages : project.archive[p] = "good" THEN "whole" ELSE "short")
  /\ spared' = {p \in Packages : project.archive[p] = "good"}
  /\ UNCHANGED <<storeVars, config, grabs, scripts, interrupts>>

-----------------------------------------------------------------------------
(* config.sh, cleanup.sh and make_unix.sh.                                 *)

\* The user turns a library on or off.
Configure(l) ==
  /\ run = NoRun /\ project.configured
  /\ config' = IF l \in config THEN config \ {l} ELSE config \cup {l}
  /\ UNCHANGED <<storeVars, project, run, synced, spared, grabs, scripts, interrupts>>

\* The libraries of the project's own libraries.sh.
Listed == project.mentions["libraries.sh"]

\* cleanup.sh goes through them in the order of the array.
Position(l) == CHOOSE i \in DOMAIN ProjectLibraries : ProjectLibraries[i] = l

First(libraries) == CHOOSE l \in libraries : \A m \in libraries : Position(l) <= Position(m)

InUse(on) == {ArchiveInUse(l, on) : l \in (on \cap Libraries) \cup Kept}

\* env.sh, then cleanup.sh when it is there; by hand or from make_unix.sh.
StartInProject(script) ==
  LET on == Resolve(config)
  IN /\ run = NoRun /\ scripts < MaxScripts /\ project.configured
     /\ scripts' = scripts + 1
     /\ IF project.cleanup
        THEN /\ run' = [NoRun EXCEPT !.script = script, !.at = "cleanup", !.on = on,
                                     !.left = Listed, !.through = Listed]
             /\ spared' = spared \cap InUse(on)
        ELSE /\ script = "make"
             /\ run' = [NoRun EXCEPT !.script = script, !.at = "compile", !.on = on]
             /\ UNCHANGED spared
     /\ UNCHANGED <<storeVars, project, config, synced, grabs, interrupts>>

Cleaning == run.at = "cleanup" /\ run.left # {}

Off(l) == l \notin run.on /\ l \notin Kept

\* What goes with the library: looked up in the project's libraries.sh.
Removed(l) ==
  IF Off(l) THEN IF l \in project.mentions["cleanup entry"] THEN Archives(l) ELSE {}
            ELSE IF l \in run.on THEN UnusedWhenOn(l) ELSE {}

RemoveArchive(p) ==
  /\ Cleaning /\ run.step = 0
  /\ p \in Removed(First(run.left)) /\ project.archive[p] # "none"
  /\ project' = [project EXCEPT !.archive[p] = "none"]
  /\ UNCHANGED <<storeVars, config, run, synced, spared, grabs, scripts, interrupts>>

NextLibrary == run' = [run EXCEPT !.left = @ \ {First(@)}, !.step = 0]

ArchivesRemoved_Unchecked ==
  /\ Cleaning /\ run.step = 0
  /\ IF Off(First(run.left)) THEN run' = [run EXCEPT !.step = 1] ELSE NextLibrary
  /\ UNCHANGED <<storeVars, project, config, synced, spared, grabs, scripts, interrupts>>

ArchivesRemoved ==
  /\ Cleaning /\ run.step = 0
  /\ \A p \in Removed(First(run.left)) \cap Packages : project.archive[p] = "none"
  /\ IF Off(First(run.left)) THEN run' = [run EXCEPT !.step = 1] ELSE NextLibrary
  /\ UNCHANGED <<storeVars, project, config, synced, spared, grabs, scripts, interrupts>>

\* One sed or rm after the other, each a new version of its file.
StrikeOut ==
  /\ Cleaning /\ run.step > 0
  /\ project' = [project EXCEPT !.mentions[Places[run.step]] = @ \ {First(run.left)}]
  /\ IF run.step = Len(Places) THEN NextLibrary ELSE run' = [run EXCEPT !.step = @ + 1]
  /\ UNCHANGED <<storeVars, config, synced, spared, grabs, scripts, interrupts>>

\* make_unix.sh removes cleanup.sh and goes on to the build, whether or not
\* there has ever been a build that succeeded.
CleanedUp ==
  /\ run.at = "cleanup" /\ run.left = {}
  /\ IF run.script = "cleanup"
     THEN run' = NoRun /\ UNCHANGED project
     ELSE /\ project' = [project EXCEPT !.cleanup = FALSE]
          /\ run' = [run EXCEPT !.at = "compile", !.cleaned = TRUE]
  /\ UNCHANGED <<storeVars, config, synced, spared, grabs, scripts, interrupts>>

\* The build, which changes nothing that is modelled.
Compile ==
  /\ run.at = "compile"
  /\ run' = NoRun
  /\ UNCHANGED <<storeVars, project, config, synced, spared, grabs, scripts, interrupts>>

-----------------------------------------------------------------------------

Interrupt ==
  /\ run # NoRun /\ interrupts < MaxInterrupts
  /\ interrupts' = interrupts + 1
  /\ run' = NoRun
  /\ UNCHANGED <<storeVars, project, config, synced, spared, grabs, scripts>>

InRepository ==
  \/ /\ grabs < MaxGrabs /\ grabs' = grabs + 1
     /\ GrabPackages \/ CleanPackages
     /\ UNCHANGED interrupts
  \/ GrabStep /\ UNCHANGED <<grabs, interrupts>>
  \/ /\ interrupts < MaxInterrupts /\ interrupts' = interrupts + 1
     /\ InterruptGrab
     /\ UNCHANGED grabs

Next ==
  \/ InRepository /\ UNCHANGED <<project, config, run, synced, spared, scripts>>
  \/ Create \/ Update
  \/ SyncCmake \/ SyncScripts \/ (\E p \in Packages : SyncArchive(p)) \/ SyncedSupport
  \/ CreateVersions \/ ProcessFiles \/ UpdateCmakeLists
  \/ \E l \in Libraries : Configure(l)
  \/ \E script \in {"make", "cleanup"} : StartInProject(script)
  \/ \E p \in Packages : RemoveArchive(p)
  \/ ArchivesRemoved \/ StrikeOut \/ CleanedUp \/ Compile
  \/ Interrupt

Spec == Init /\ [][Next]_vars

-----------------------------------------------------------------------------
(* Properties.                                                             *)

Whole(l) ==
  /\ project.archive[ArchiveInUse(l, run.on)] = "good"
  /\ \A m \in Place : l \in project.mentions[m]

\* The build finds, whole, every library that is on, whose archive the last create
\* or update found good, whatever was going on in the repository meanwhile, and no
\* cleanup since had reason to remove: an interrupted cleanup, one taken up again, a
\* change of config.sh or the removal of another library never costs a library that
\* is in use.
InUseStaysWhole ==
  run.at = "compile" /\ synced # "cut" =>
    \A l \in run.on \cap Libraries : ArchiveInUse(l, run.on) \in spared => Whole(l)

\* A build that cleaned up before finds no archive of what is off, whichever
\* cleanups and updates were interrupted.  A library that the cleanup went through
\* is mentioned nowhere.  One that is no longer in its list, because an earlier
\* cleanup struck it out, has no include, option or entry; if that cleanup was
\* interrupted just then, its hashes, versions and cmake file are left.  (After an
\* update that was cut short the includes may be back too, and not the list.)
CleanupIsComplete ==
  run.at = "compile" /\ run.cleaned =>
    \A l \in Libraries \ (run.on \cup Kept) :
      /\ \A p \in Archives(l) : project.archive[p] = "none"
      /\ l \in run.through => \A m \in Place : l \notin project.mentions[m]
      /\ synced # "cut" => \A i \in 1 .. 5 : l \notin project.mentions[Places[i]]

\* Between two runs of grab_packages.sh and clean_packages.sh an archive that is not
\* what its .sha256 says is one that a grab was at when it was interrupted: no other
\* is ever spoiled, by a later run, by a removal that is cut short, or by a download
\* that fails.
GrabKeepsOnlyGoodArchives ==
  grab = Idle => \A p \in Packages : store[p] = "bad" => p \in interrupted

\* Whatever config.sh turns on, env.sh turns on every target that depends on,
\* but for OpenSSL when it is only wxWidgets that turns Curl on: that rule comes
\* after Curl's, and the rules are gone through once.  (The tables never change:
\* stated of the initial states.)
DependenciesAreOn ==
  grabs = 0 /\ scripts = 0 => \A configured \in SUBSET UNION {rule.any : rule \in {Rules[i] : i \in DOMAIN Rules}} :
    LET on == Resolve(configured)
    IN \A l \in on :
         \/ TargetsNeeded(l) \subseteq on
         \/ l = "CURL" /\ "WXWIDGETS" \in on /\ {"CURL", "CPP_HTTPLIB"} \cap configured = {}

\* "This reduces dependency bloat to exactly what your project needs"
\* (README.md): after the cleanup, what the targets of the libraries that are on
\* depend on is there.
CleanupKeepsWhatIsNeeded ==
  run.at = "compile" /\ run.cleaned /\ synced = "whole" =>
    \A l \in run.on : \A needed \in TargetsNeeded(l) \cap Libraries :
      project.archive[ArchiveInUse(needed, run.on)] = "good"
=============================================================================
