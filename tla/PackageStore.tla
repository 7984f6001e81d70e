---------------------------- MODULE PackageStore ----------------------------
(***************************************************************************)
(* support/3rd_party of the cpp-build-system repository: grab_packages.sh  *)
(* downloads every archive that is not there and checks it against its     *)
(* .sha256, clean_packages.sh removes them all.  An archive is either what *)
(* its .sha256 says ("good") or not ("bad": cut short, or another file).   *)
(***************************************************************************)
EXTENDS LibraryTable

CONSTANTS Libraries  \* the libraries there are

ASSUME LibrariesAssumption == Libraries \subseteq {ProjectLibraries[i] : i \in DOMAIN ProjectLibraries}

VARIABLES store,       \* each archive in the repository: "none", "bad" or "good"
          grab,        \* where the script that runs is
          interrupted  \* history: the archives a grab_packages.sh was at when it was
                       \* cut short

storeVars == <<store, grab, interrupted>>

Packages == UNION {Archives(l) : l \in Libraries}

States == {"none", "bad", "good"}

Idle == [at |-> "idle", package |-> "", left |-> {}]

StoreInit ==
  /\ store \in [Packages -> {"none", "good"}]
  /\ \A p \in Packages \ NotDownloaded : store[p] = "none"
  /\ grab = Idle
  /\ interrupted = {}

-----------------------------------------------------------------------------

GrabPackages ==
  /\ grab = Idle
  /\ grab' = [at |-> "next", package |-> "", left |-> Packages \ NotDownloaded]
  /\ UNCHANGED <<store, interrupted>>

\* download_package: an archive that is there is not looked at; wget creates
\* the file before the first byte.
DownloadPackage(p) ==
  /\ grab.at = "next" /\ p \in grab.left
  /\ IF store[p] # "none"
     THEN grab' = [grab EXCEPT !.left = @ \ {p}] /\ UNCHANGED store
     ELSE /\ grab' = [at |-> "download", package |-> p, left |-> grab.left \ {p}]
          /\ store' = [store EXCEPT ![p] = "bad"]
  /\ UNCHANGED interrupted

\* What the server sent, or nothing: the file is removed and the script exits.
Downloaded(content) ==
  /\ grab.at = "download"
  /\ store' = [store EXCEPT ![grab.package] = content]
  /\ grab' = IF content = "none" THEN Idle ELSE [grab EXCEPT !.at = "verify"]
  /\ UNCHANGED interrupted

\* sha256sum -c: an archive that fails it is removed and the script exits.
Verify_Reported ==
  /\ grab.at = "verify"
  /\ UNCHANGED store
  /\ grab' = IF store[grab.package] = "good" THEN [grab EXCEPT !.at = "next"] ELSE Idle
  /\ UNCHANGED interrupted

Verify ==
  /\ grab.at = "verify"
  /\ IF store[grab.package] = "good"
     THEN UNCHANGED store /\ grab' = [grab EXCEPT !.at = "next", !.package = ""]
     ELSE store' = [store EXCEPT ![grab.package] = "none"] /\ grab' = Idle
  /\ UNCHANGED interrupted

GrabDone ==
  /\ grab.at = "next" /\ grab.left = {}
  /\ grab' = Idle
  /\ UNCHANGED <<store, interrupted>>

\* clean_packages.sh, an archive at a time.
CleanPackages ==
  /\ grab = Idle
  /\ grab' = [Idle EXCEPT !.at = "clean"]
  /\ UNCHANGED <<store, interrupted>>

CleanOne ==
  /\ grab.at = "clean"
  /\ \/ \E p \in Packages : store[p] # "none" /\ store' = [store EXCEPT ![p] = "none"]
                            /\ UNCHANGED grab
     \/ (\A p \in Packages : store[p] = "none") /\ grab' = Idle /\ UNCHANGED store
  /\ UNCHANGED interrupted

\* The user interrupts the script, or the machine goes down.
InterruptGrab ==
  /\ grab # Idle
  /\ grab' = Idle
  /\ interrupted' = interrupted \cup ({grab.package} \cap Packages)
  /\ UNCHANGED store

GrabStep ==
  \/ \E p \in Packages : DownloadPackage(p)
  \/ \E content \in States : Downloaded(content)
  \/ Verify
  \/ GrabDone
  \/ CleanOne
=============================================================================
