------------------------------- MODULE Release -------------------------------
(***************************************************************************)
(* The publish job of .github/workflows/release.yml: the assets an         *)
(* installer of one version and one platform downloads.  The job may run   *)
(* again for a tag that is out, with a build of its own; nothing in the    *)
(* workflow keeps two of its jobs apart (it has no concurrency group).     *)
(***************************************************************************)
EXTENDS Integers, FiniteSets

CONSTANT MaxBuilds    \* the runs of the job: a bound

ASSUME MaxBuildsAssumption == MaxBuilds \in Nat \ {0}

Missing == 0
Builds == 1..MaxBuilds
Assets == {"archive", "SHA256SUMS"}

VARIABLES
  assets,      \* the build each public asset is of, or lists
  built,       \* builds so far
  uploading,   \* of each build's job, the assets it has still to put in place
  \* history
  listed,      \* builds a public SHA256SUMS has listed
  disturbed    \* a job was cut short, or ran beside another, since one last began alone

release == <<assets, built, uploading, listed, disturbed>>

ReleaseTypeOK ==
  /\ assets \in [Assets -> Builds \cup {Missing}]
  /\ built \in 0..MaxBuilds
  /\ uploading \in [Builds -> SUBSET Assets]
  /\ listed \subseteq Builds
  /\ disturbed \in BOOLEAN

Running == {b \in Builds : uploading[b] # {}}

ReleaseInit ==
  /\ assets = [a \in Assets |-> Missing]
  /\ built = 0 /\ uploading = [b \in Builds |-> {}]
  /\ listed = {} /\ disturbed = FALSE

\* gh release create: a draft until every asset of dist/ is there.  Of two jobs
\* that find no release of the tag, the second one fails to create it.
Create ==
  /\ built = 0
  /\ built' = 1
  /\ assets' = [a \in Assets |-> 1]
  /\ listed' = {1}
  /\ UNCHANGED <<uploading, disturbed>>

\* Mutant: the sums are not generated into dist/.
Dist_NoSums == {"archive"}

\* dist/: the archive and the sums of this run's build.
Dist == {"archive", "SHA256SUMS"}

\* gh release view finds the tag, out already or released by hand without assets:
\* gh release upload dist/* --clobber.
Upload ==
  /\ built < MaxBuilds
  /\ built' = built + 1
  /\ uploading' = [uploading EXCEPT ![built + 1] = Dist]
  /\ disturbed' = (Running # {})
  /\ UNCHANGED <<assets, listed>>

\* --clobber deletes an asset, then uploads it; the assets go in any order.
Delete(b, a) ==
  /\ a \in uploading[b]
  /\ assets[a] # Missing
  /\ assets' = [assets EXCEPT ![a] = Missing]
  /\ UNCHANGED <<built, uploading, listed, disturbed>>

Put(b, a) ==
  /\ a \in uploading[b]
  /\ assets[a] = Missing
  /\ assets' = [assets EXCEPT ![a] = b]
  /\ uploading' = [uploading EXCEPT ![b] = @ \ {a}]
  /\ listed' = IF a = "SHA256SUMS" THEN listed \cup {b} ELSE listed
  /\ UNCHANGED <<built, disturbed>>

\* The job is cancelled, its runner lost, or gh fails: on an asset that another
\* job has deleted or uploaded in the meantime, among other things.
Abort(b) ==
  /\ uploading[b] # {}
  /\ uploading' = [uploading EXCEPT ![b] = {}]
  /\ disturbed' = TRUE
  /\ UNCHANGED <<assets, built, listed>>

Publish == \/ Create
           \/ Upload
           \/ \E b \in Builds : Abort(b) \/ \E a \in Assets : Delete(b, a) \/ Put(b, a)

=============================================================================
