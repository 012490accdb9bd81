---------------------------- MODULE InstallProofs ----------------------------
(***************************************************************************)
(* Theorems about Install, for any number of shells and of publications.   *)
(***************************************************************************)
EXTENDS Install, TLAPS

\* A public SHA256SUMS is of a listed build, and nothing is listed before the
\* first publication.
PublicInv ==
  /\ assets["SHA256SUMS"] # Missing => assets["SHA256SUMS"] \in listed
  /\ built = 0 => listed = {} /\ \A b \in Builds : uploading[b] = {}

\* What a shell holds, at each of its commands.
ShellInv(p) ==
  /\ pc[p] \in {"cp", "copying", "chmod", "mv"} /\ p \notin INSECURE => archive[p] \in listed
  /\ pc[p] \in {"copying", "chmod", "mv"} => staged[p] # NoFile
  /\ pc[p] \in {"chmod", "mv"} => staged[p].content = archive[p]
  /\ pc[p] = "mv" => staged[p].mode = "755"
  /\ pc[p] \in {"ended", "archive", "sums", "cp"} /\ staged[p] # NoFile => p \in cut

\* The part of it that INSTALL_DIR shows.
DirectoryInv == WholeAndExecutable /\ OnlyListedBuilds

InstallInv ==
  /\ TypeOK
  /\ PublicInv
  /\ \A p \in Pids : ShellInv(p)
  /\ DirectoryInv

-----------------------------------------------------------------------------

\* Nothing public, nothing running and nothing installed satisfies it.
LEMMA InitInstallInv == Init => InstallInv
PROOF
<1> SUFFICES ASSUME Init PROVE InstallInv
  OBVIOUS
<1>1. disturbed \in BOOLEAN
  BY Zenon DEF Init, ReleaseInit
<1> QED
  BY <1>1, MaxBuildsAssumption
     DEF Init, ReleaseInit, InstallInv, TypeOK, ReleaseTypeOK, PublicInv, ShellInv, DirectoryInv,
         WholeAndExecutable, OnlyListedBuilds, Commands, Files, NoFile, Part, Builds,
         Missing, Assets

\* A step of the publication changes nothing on the host and lists ever more.
LEMMA PublishStep ==
  InstallInv /\ Publish /\ UNCHANGED <<run, staged, binary, host, by, cut>> => InstallInv'
PROOF
<1> SUFFICES ASSUME InstallInv, Publish, UNCHANGED <<run, staged, binary, host, by, cut>>
             PROVE InstallInv'
  OBVIOUS
<1> USE MaxBuildsAssumption DEF InstallInv, TypeOK, ReleaseTypeOK, PublicInv, Builds, Missing, Assets
<1>1. /\ ReleaseTypeOK' /\ PublicInv' /\ listed \subseteq listed'
  <2>1. CASE Create
    BY <2>1 DEF Create
  <2>2. CASE Upload
    <3>1. disturbed' \in BOOLEAN
      BY <2>2, Zenon DEF Upload
    <3> QED
      BY <2>2, <3>1 DEF Upload, Dist
  <2>3. ASSUME NEW b \in Builds, Abort(b)
        PROVE ReleaseTypeOK' /\ PublicInv' /\ listed \subseteq listed'
    <3>1. disturbed' \in BOOLEAN
      BY <2>3, Zenon DEF Abort
    <3> QED
      BY <2>3, <3>1 DEF Abort
  <2>4. ASSUME NEW b \in Builds, NEW a \in Assets, Delete(b, a)
        PROVE ReleaseTypeOK' /\ PublicInv' /\ listed \subseteq listed'
    BY <2>4 DEF Delete
  <2>5. ASSUME NEW b \in Builds, NEW a \in Assets, Put(b, a)
        PROVE ReleaseTypeOK' /\ PublicInv' /\ listed \subseteq listed'
    <3>1. built # 0 /\ assets' = [assets EXCEPT ![a] = b] /\ built' = built
          /\ uploading' = [uploading EXCEPT ![b] = @ \ {a}]
          /\ disturbed' = disturbed
      BY <2>5 DEF Put
    <3>2. listed' = IF a = "SHA256SUMS" THEN listed \cup {b} ELSE listed
      BY <2>5 DEF Put
    <3>3. disturbed' \in BOOLEAN
      BY <3>1, Zenon
    <3>4. /\ assets' \in [Assets -> Builds \cup {Missing}] /\ listed' \subseteq Builds
          /\ uploading' \in [Builds -> SUBSET Assets] /\ listed \subseteq listed'
      BY <3>1, <3>2
    <3>5. assets'["SHA256SUMS"] # Missing => assets'["SHA256SUMS"] \in listed'
      BY <3>1, <3>2
    <3> QED
      BY <3>1, <3>3, <3>4, <3>5
  <2> QED
    <3>1. CASE \E b \in Builds : Abort(b) \/ \E a \in Assets : Delete(b, a) \/ Put(b, a)
      BY <3>1, <2>3, <2>4, <2>5, Zenon
    <3> QED
      BY <2>1, <2>2, <3>1, Zenon DEF Publish
<1>2. TypeOK'
  BY <1>1 DEF run, host
<1>3. \A p \in Pids : ShellInv(p)'
  BY <1>1 DEF ShellInv, run
<1>4. DirectoryInv'
  BY <1>1 DEF DirectoryInv, WholeAndExecutable, OnlyListedBuilds
<1> QED
  BY <1>1, <1>2, <1>3, <1>4

\* A step of one shell touches its own command, archive and staging file.
LEMMA ShellStep ==
  ASSUME NEW p \in Pids, InstallInv,
         Start(p) \/ Step(p) \/ CommandFails(p) \/ Kill(p)
  PROVE  InstallInv'
PROOF
<1> USE MaxBuildsAssumption, INSECUREAssumption
    DEF InstallInv, TypeOK, ReleaseTypeOK, PublicInv, ShellInv, DirectoryInv, WholeAndExecutable,
        OnlyListedBuilds, Commands, Files, NoFile, Part, Builds, Missing, Assets,
        release, run, host, StagedName, Ends
<1>1. CASE Start(p)
  BY <1>1 DEF Start
<1>2. ASSUME Die(p), pc[p] \in Commands PROVE InstallInv'
  BY <1>2 DEF Die, Cleaned, Removed
<1>3. CASE DownloadArchive(p)
  <2>1. CASE Served("archive")
    <3>1. /\ pc[p] = "archive"
          /\ archive' = [archive EXCEPT ![p] = assets["archive"]]
          /\ pc' = [pc EXCEPT ![p] = "sums"]
          /\ UNCHANGED <<release, staged, binary, host, by, cut>>
      BY <1>3, <2>1 DEF DownloadArchive
    <3>2. assets["archive"] \in Builds
      BY <2>1 DEF Served
    <3> QED
      BY <3>1, <3>2
  <2>2. CASE ~ Served("archive")
    BY <1>2, <1>3, <2>2 DEF DownloadArchive
  <2> QED
    BY <2>1, <2>2
<1>4. CASE Verify(p)
  BY <1>2, <1>4 DEF Verify, Verified, Served
<1>5. CASE CopyBegins(p)
  BY <1>5 DEF CopyBegins
<1>6. CASE CopyEnds(p)
  BY <1>6 DEF CopyEnds
<1>7. CASE Chmod(p)
  BY <1>7 DEF Chmod
<1>8. CASE Move(p)
  BY <1>8 DEF Move
<1>9. CASE CommandFails(p)
  BY <1>2, <1>9 DEF CommandFails
<1>10. CASE Kill(p)
  BY <1>10 DEF Kill, Cleaned, Removed
<1> QED
  BY <1>1, <1>3, <1>4, <1>5, <1>6, <1>7, <1>8, <1>9, <1>10 DEF Step

\* The invariant holds in every reachable state.
THEOREM InstallInvariance == Spec => []InstallInv
PROOF
<1>1. InstallInv /\ [Next]_vars => InstallInv'
  <2> SUFFICES ASSUME InstallInv, [Next]_vars PROVE InstallInv'
    OBVIOUS
  <2>1. CASE Script
    BY <2>1, ShellStep DEF Script
  <2>2. CASE Interruption
    BY <2>2, ShellStep DEF Interruption
  <2>3. CASE Publish /\ UNCHANGED <<run, staged, binary, host, by, cut>>
    BY <2>3, PublishStep
  <2>4. CASE UNCHANGED vars
    BY <2>4 DEF vars, release, run, host, InstallInv, TypeOK, ReleaseTypeOK, PublicInv,
       ShellInv, DirectoryInv, WholeAndExecutable, OnlyListedBuilds
  <2> QED
    BY <2>1, <2>2, <2>3, <2>4 DEF Next
<1> QED
  BY InitInstallInv, <1>1, PTL DEF Spec

\* The release's, the shells' and the directory's state is well typed.
THEOREM TypeCorrect == Spec => []TypeOK
PROOF
<1>1. InstallInv => TypeOK
  BY DEF InstallInv
<1> QED
  BY InstallInvariance, <1>1, PTL

\* The installed binary is whole and executable at every moment.
THEOREM WholeAndExecutableAlways == Spec => []WholeAndExecutable
PROOF
<1>1. InstallInv => WholeAndExecutable
  BY DEF InstallInv, DirectoryInv
<1> QED
  BY InstallInvariance, <1>1, PTL

\* Only listed builds are installed, unless the user asked otherwise.
THEOREM OnlyListedBuildsAlways == Spec => []OnlyListedBuilds
PROOF
<1>1. InstallInv => OnlyListedBuilds
  BY DEF InstallInv, DirectoryInv
<1> QED
  BY InstallInvariance, <1>1, PTL

\* Only a killed run leaves a staging file.
THEOREM OnlyAKillLeavesAFileAlways == Spec => []OnlyAKillLeavesAFile
PROOF
<1>1. InstallInv => OnlyAKillLeavesAFile
  BY DEF InstallInv, ShellInv, OnlyAKillLeavesAFile
<1> QED
  BY InstallInvariance, <1>1, PTL

=============================================================================
