------------------------------- MODULE Install -------------------------------
(***************************************************************************)
(* install.sh, run by several processes on one host and cut short at any   *)
(* step, while the release it downloads is being published.                *)
(***************************************************************************)
EXTENDS Release

CONSTANTS
  Pids,      \* the shells that may run it at the same time
  INSECURE   \* those run with INSECURE=1

ASSUME INSECUREAssumption == INSECURE \subseteq Pids

VARIABLES
  \* each run of the script
  pc,         \* the next command, or "ended" when it does not run
  archive,    \* the build downloaded to TMP_DIR, or Missing
  \* INSTALL_DIR
  staged,     \* .wire-probe.<pid>
  binary,     \* wire-probe
  \* the host
  umask,      \* "022" or "077"
  SHA256_CMD, \* whether there is a sha256 tool
  \* history
  by,         \* who put binary in place
  cut         \* pids a run of which was killed

run == <<pc, archive>>
host == <<umask, SHA256_CMD>>
vars == <<release, run, staged, binary, host, by, cut>>

Part == -1
NoFile == [content |-> Missing, mode |-> "none"]
Files == [content : Builds \cup {Part}, mode : {"755", "700"}] \cup {NoFile}

Commands == {"archive", "sums", "cp", "copying", "chmod", "mv"}

TypeOK ==
  /\ ReleaseTypeOK
  /\ pc \in [Pids -> Commands \cup {"ended"}]
  /\ archive \in [Pids -> Builds \cup {Missing}]
  /\ \A p \in Pids : pc[p] \notin {"ended", "archive"} => archive[p] \in Builds
  /\ staged \in [Pids -> Files]
  /\ binary \in Files
  /\ umask \in {"022", "077"} /\ SHA256_CMD \in BOOLEAN
  /\ by \in SUBSET Pids /\ cut \subseteq Pids

-----------------------------------------------------------------------------

Init ==
  /\ ReleaseInit
  /\ pc = [p \in Pids |-> "ended"]
  /\ archive = [p \in Pids |-> Missing]
  /\ staged = [p \in Pids |-> NoFile]
  /\ binary = NoFile
  /\ umask \in {"022", "077"} /\ SHA256_CMD \in BOOLEAN
  /\ by = {} /\ cut = {}

\* One staging file for each process.  Mutant: one for all.
StagedName_Fixed(p) == CHOOSE q \in Pids : TRUE
StagedName(p) == p

\* A run starts, up to the first download; its TMP_DIR is new.
Start(p) ==
  /\ pc[p] = "ended"
  /\ pc' = [pc EXCEPT ![p] = "archive"]
  /\ UNCHANGED <<release, archive, staged, binary, host, by, cut>>

\* Mutant: the staging file is not in the trap.
Cleaned_TmpOnly(p) == {}

\* What the EXIT trap removes besides TMP_DIR, once STAGED is set.
Cleaned(p) == IF pc[p] \in {"cp", "copying", "chmod", "mv"} THEN {StagedName(p)} ELSE {}

Removed(names) == [q \in Pids |-> IF q \in names THEN NoFile ELSE staged[q]]

\* The run is over, and its TMP_DIR of no further use.
Ends(p) ==
  /\ pc' = [pc EXCEPT ![p] = "ended"]
  /\ archive' = [archive EXCEPT ![p] = Missing]

\* die, or set -e.
Die(p) ==
  /\ Ends(p)
  /\ staged' = Removed(Cleaned(p))
  /\ UNCHANGED <<release, binary, host, by, cut>>

Served(a) == assets[a] # Missing

DownloadArchive(p) ==
  /\ pc[p] = "archive"
  /\ \/ /\ Served("archive")
        /\ archive' = [archive EXCEPT ![p] = assets["archive"]]
        /\ pc' = [pc EXCEPT ![p] = "sums"]
        /\ UNCHANGED <<release, staged, binary, host, by, cut>>
     \/ ~ Served("archive") /\ Die(p)

\* Mutant: what cannot be checked is installed all the same.
Verified_FailOpen(p) ==
  p \in INSECURE \/ ~ SHA256_CMD \/ assets["SHA256SUMS"] \in {Missing, archive[p]}

\* INSECURE=1, or the digest listed in the SHA256SUMS of this moment.
Verified(p) ==
  p \in INSECURE \/ (SHA256_CMD /\ Served("SHA256SUMS") /\ assets["SHA256SUMS"] = archive[p])

\* The check; then tar, find and chmod 755, all within TMP_DIR.
Verify(p) ==
  /\ pc[p] = "sums"
  /\ \/ /\ Verified(p)
        /\ pc' = [pc EXCEPT ![p] = "cp"]
        /\ UNCHANGED <<release, archive, staged, binary, host, by, cut>>
     \/ ~ Verified(p) /\ Die(p)

\* cp opens STAGED, and truncates what a killed run left there, whose mode stays.
CopyBegins(p) ==
  /\ pc[p] = "cp"
  /\ pc' = [pc EXCEPT ![p] = "copying"]
  /\ staged' = [staged EXCEPT ![StagedName(p)] =
       [content |-> Part,
        mode |-> IF @ # NoFile THEN @.mode ELSE IF umask = "022" THEN "755" ELSE "700"]]
  /\ UNCHANGED <<release, archive, binary, host, by, cut>>

CopyEnds(p) ==
  /\ pc[p] = "copying"
  /\ staged[StagedName(p)] # NoFile
  /\ pc' = [pc EXCEPT ![p] = "chmod"]
  /\ staged' = [staged EXCEPT ![StagedName(p)].content = archive[p]]
  /\ UNCHANGED <<release, archive, binary, host, by, cut>>

\* 755, and not +x, which the umask masks.
Chmod(p) ==
  /\ pc[p] = "chmod"
  /\ staged[StagedName(p)] # NoFile
  /\ pc' = [pc EXCEPT ![p] = "mv"]
  /\ staged' = [staged EXCEPT ![StagedName(p)].mode = "755"]
  /\ UNCHANGED <<release, archive, binary, host, by, cut>>

\* The rename within INSTALL_DIR, and the end of the script.
Move(p) ==
  /\ pc[p] = "mv"
  /\ staged[StagedName(p)] # NoFile
  /\ Ends(p)
  /\ binary' = staged[StagedName(p)]
  /\ staged' = [staged EXCEPT ![StagedName(p)] = NoFile]
  /\ by' = {p}
  /\ UNCHANGED <<release, host, cut>>

\* A command fails: no network, no space, no permission.
CommandFails(p) == pc[p] \in Commands /\ Die(p)

\* A signal ends the shell; whether the trap still runs depends on both.
Kill(p) ==
  /\ pc[p] \in Commands
  /\ Ends(p)
  /\ staged' \in {staged, Removed(Cleaned(p))}
  /\ cut' = cut \cup {p}
  /\ UNCHANGED <<release, binary, host, by>>

Step(p) == \/ DownloadArchive(p) \/ Verify(p)
           \/ CopyBegins(p) \/ CopyEnds(p) \/ Chmod(p) \/ Move(p)

Interruption == \E p \in Pids : CommandFails(p) \/ Kill(p)
Script == \E p \in Pids : Start(p) \/ Step(p)

Next == \/ Script
        \/ Interruption
        \/ Publish /\ UNCHANGED <<run, staged, binary, host, by, cut>>

\* A script that runs goes on.
Spec == /\ Init /\ [][Next]_vars
        /\ \A p \in Pids : WF_vars(Step(p))

-----------------------------------------------------------------------------

\* The installed binary is a whole one that every user can execute, whatever is
\* interrupted, runs at the same time, or was left behind (install.sh:147-155).
WholeAndExecutable == binary # NoFile => binary.content \in Builds /\ binary.mode = "755"

\* Without INSECURE=1 nothing is installed but a build that a published
\* SHA256SUMS listed, also while the assets are being replaced one by one.
OnlyListedBuilds == by \cap INSECURE = {} /\ binary # NoFile => binary.content \in listed

\* A run that ends by itself leaves nothing in INSTALL_DIR but the binary.
OnlyAKillLeavesAFile ==
  \A p \in Pids : pc[p] = "ended" /\ staged[p] # NoFile => p \in cut

\* Once a publish job has run alone to its end, and nothing is interrupted any
\* more, running the script again and again installs again and again, whatever
\* mixtures and leftovers earlier runs met (install.sh:119-121).  Jobs that ran
\* beside each other can leave the archive of one build and the sums of another.
ReleaseIsInstallable ==
  /\ SHA256_CMD
  /\ <>[](built > 0 /\ Running = {} /\ ~ disturbed)
  /\ <>[][Script]_vars
  => \A p \in Pids : []<>(pc[p] = "archive") => []<><<Move(p)>>_vars

=============================================================================
