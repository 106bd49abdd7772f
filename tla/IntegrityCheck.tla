--------------------------- MODULE IntegrityCheck ---------------------------
(***************************************************************************)
(* ProofPlaneIntegrityCheck (src/src/events/integrity-check.ts): calls of  *)
(* runAllChecks() on one checker that may overlap, over an installation    *)
(* that is deployed, repaired and damaged meanwhile.                       *)
(*                                                                         *)
(* A call reads the manifest, puts it when the answer arrives into a field *)
(* of the checker that all calls share, and then reads the critical files  *)
(* one after the other; what each must be is looked up in that field       *)
(* before its read is awaited.  The file system is external.  A digest     *)
(* stands for its content, and both spellings of a name in the manifest    *)
(* for that name.                                                          *)
(***************************************************************************)
EXTENDS Naturals, Sequences

CONSTANTS
  CriticalFiles,  \* CRITICAL_FILES, a sequence of names
  Build,          \* Build[v]: the files that the manifest of version v lists
  Unlisted,       \* digests that no manifest lists
  NoVersion,      \* the version of a manifest that has none
  Placeholder,    \* the version of PLACEHOLDER_MANIFEST
  Environments,   \* the sets of capabilities a runtime may have
  Call,           \* calls of runAllChecks that may be under way together
  MaxChanges      \* bound: changes of the installation

Version == DOMAIN Build
File == {CriticalFiles[n] : n \in DOMAIN CriticalFiles}
Capability == {"node_version", "webcrypto", "sha256", "sha3_256", "ed25519"}

Unreadable == "unreadable"   \* a file or manifest that readFile rejects
Malformed == "malformed"     \* a manifest that parses and has no files, or is null

ASSUME ParameterTypes ==
  /\ CriticalFiles \in Seq(File)
  /\ \A v \in Version : DOMAIN Build[v] \subseteq File
  /\ {NoVersion, Placeholder, Malformed, Unreadable} \cap Version = {}
  /\ \A e \in Environments : e \subseteq Capability /\ ("ed25519" \in e => "webcrypto" \in e)
  /\ MaxChanges \in Nat

Listed == UNION { {Build[v][f] : f \in DOMAIN Build[v]} : v \in Version }

ASSUME NotListed == Unlisted \cap Listed = {}

Content == Listed \cup Unlisted \cup {Unreadable}

VARIABLES
  disk,         \* the installation: its manifest, critical files and dependency
  environment,  \* what the runtime is capable of
  manifest,     \* this.manifest, by its version
  call,         \* call[c]: the call of runAllChecks in slot c
  changes       \* changes of the installation so far

vars == <<disk, environment, manifest, call, changes>>

Manifest == Version \cup {Placeholder, Malformed}
Outcome == {"pending", "skipped", "matched", "failed"}

\* quiet, held and altered are what the properties ask of a call: whether since
\* it began the installation has not changed, nor a late answer the manifest, the
\* manifests the checker has held since the load, and the files that no manifest
\* has listed all along.
CallState ==
  [step : {"idle", "loading", "answered", "checking", "reported", "rejected"},
   answer : Version \cup {Malformed, Unreadable},
   reading : 1..(Len(CriticalFiles) + 1), expected : Listed \cup {Unreadable},
   files : [File -> Outcome], dependency : Outcome,
   passed : BOOLEAN, packageVersion : Version \cup {Placeholder, NoVersion},
   quiet : BOOLEAN, held : SUBSET Manifest, altered : SUBSET File]

TypeOK ==
  /\ disk \in [manifest : Version \cup {Malformed, Unreadable}, files : [File -> Content],
               dependency : {"ours", "other", Unreadable}]
  /\ environment \in Environments
  /\ manifest \in Manifest
  /\ call \in [Call -> CallState]
  /\ changes \in 0..MaxChanges

NoCall ==
  [step |-> "idle", answer |-> Unreadable, reading |-> 1, expected |-> Unreadable,
   files |-> [f \in File |-> "pending"], dependency |-> "pending",
   passed |-> FALSE, packageVersion |-> NoVersion,
   quiet |-> TRUE, held |-> {}, altered |-> {}]

\* What a build left behind: the files it lists, the others of no listed content.
Installed(v) ==
  {d \in [manifest : {v, Unreadable}, files : [File -> Content], dependency : {"ours", Unreadable}] :
     \A f \in File : IF f \in DOMAIN Build[v] THEN d.files[f] = Build[v][f]
                     ELSE d.files[f] \in Unlisted}

Init ==
  /\ \E v \in Version : disk \in Installed(v)
  /\ environment \in Environments
  /\ manifest \in Version \cup {Placeholder}   \* options.manifest, or none
  /\ call = [c \in Call |-> NoCall]
  /\ changes = 0

-----------------------------------------------------------------------------
(***************************************************************************)
(* The installation, in the hands of deployments, repairs and accidents.   *)
(***************************************************************************)
Altered(d) == {f \in File : d.files[f] \in Unlisted}

Change(d) ==
  /\ changes < MaxChanges
  /\ d # disk
  /\ disk' = d
  /\ changes' = changes + 1
  /\ call' = [c \in Call |-> [call[c] EXCEPT !.quiet = FALSE, !.altered = @ \cap Altered(d)]]
  /\ UNCHANGED <<environment, manifest>>

WriteFile(f, content) == Change([disk EXCEPT !.files[f] = content])

WriteManifest(m) == Change([disk EXCEPT !.manifest = m])

InstallDependency(d) == Change([disk EXCEPT !.dependency = d])

-----------------------------------------------------------------------------
(***************************************************************************)
(* runAllChecks.                                                           *)
(***************************************************************************)
At(c, step) == call[c].step = step

Begin(c) ==
  /\ call[c].step \in {"idle", "reported", "rejected"}
  /\ call' = [call EXCEPT ![c] = [NoCall EXCEPT !.step = "loading", !.altered = Altered(disk)]]
  /\ UNCHANGED <<disk, environment, manifest, changes>>

Files(m) == IF m \in Version THEN DOMAIN Build[m] ELSE {}

\* The loop goes on at file n: those the manifest does not list are skipped.
NextListed(m, n) ==
  CHOOSE k \in n..(Len(CriticalFiles) + 1) :
    /\ k \in DOMAIN CriticalFiles => CriticalFiles[k] \in Files(m)
    /\ \A j \in n..(k - 1) : CriticalFiles[j] \notin Files(m)

\* Call s goes on at file n with manifest m, and awaits the read of the next file
\* that m lists; a manifest without files makes it throw, within the loop.
GoOn(s, m, n) ==
  LET k == NextListed(m, n) IN
    IF n > Len(CriticalFiles) THEN [s EXCEPT !.reading = n]
    ELSE IF m = Malformed THEN [s EXCEPT !.step = "rejected"]
    ELSE [s EXCEPT
            !.reading = k,
            !.expected = IF k \in DOMAIN CriticalFiles THEN Build[m][CriticalFiles[k]] ELSE @,
            !.files = [f \in File |-> IF \E j \in n..(k - 1) : CriticalFiles[j] = f
                                      THEN "skipped" ELSE @[f]]]

\* Mutant of Loaded: what was read is returned and not kept.
NotKept(m) == manifest

\* loadManifest keeps what it has when the file cannot be read.
Loaded(m) == IF m = Unreadable THEN manifest ELSE m

\* readFile has the manifest as it is now; its answer is on the way.
ReadManifest(c) ==
  /\ At(c, "loading")
  /\ call' = [call EXCEPT ![c].step = "answered", ![c].answer = disk.manifest]
  /\ UNCHANGED <<disk, environment, manifest, changes>>

\* c puts a manifest that is not the one on the disk in the place of d's.
Disturbs(c, d) == At(d, "checking") /\ call[c].answer \notin {disk.manifest, Unreadable}

\* The answer arrives and is kept; the checks begin, up to their first awaits.
Load(c) ==
  /\ At(c, "answered")
  /\ manifest' = Loaded(call[c].answer)
  /\ LET started == GoOn([call[c] EXCEPT !.step = "checking"], manifest', 1) IN
       call' = [d \in Call |->
                 IF d = c THEN [started EXCEPT !.answer = Unreadable, !.held = {manifest'}]
                 ELSE [call[d] EXCEPT !.held = @ \cup {manifest'},
                                      !.quiet = @ /\ ~ Disturbs(c, d)]]
  /\ UNCHANGED <<disk, environment, changes>>

FileOutcome(expected, actual) == IF actual = expected THEN "matched" ELSE "failed"

\* Mutant of ReadCriticalFile: a file whose entry was replaced meanwhile is skipped.
SkipReplaced(c) ==
  /\ At(c, "checking")
  /\ call[c].reading \in DOMAIN CriticalFiles
  /\ LET f == CriticalFiles[call[c].reading]
         stands == f \in Files(manifest) /\ Build[manifest][f] = call[c].expected
         compared == [call[c] EXCEPT !.files[f] =
           IF stands THEN FileOutcome(call[c].expected, disk.files[f]) ELSE "skipped"]
     IN  call' = [call EXCEPT ![c] = GoOn(compared, manifest, call[c].reading + 1)]
  /\ UNCHANGED <<disk, environment, manifest, changes>>

\* A critical file is read, and compared with what the manifest said before.
ReadCriticalFile(c) ==
  /\ At(c, "checking")
  /\ call[c].reading \in DOMAIN CriticalFiles
  /\ LET f == CriticalFiles[call[c].reading]
         compared == [call[c] EXCEPT !.files[f] = FileOutcome(call[c].expected, disk.files[f])]
     IN  call' = [call EXCEPT ![c] = GoOn(compared, manifest, call[c].reading + 1)]
  /\ UNCHANGED <<disk, environment, manifest, changes>>

\* The dependency's package.json: what cannot be read passes.  Its name is
\* compared and nothing else; that its version is the one in package-lock.json,
\* which the comments at lines 169-170 and 288-291 say, is not looked at.
ReadDependency(c) ==
  /\ At(c, "checking")
  /\ call[c].dependency = "pending"
  /\ call' = [call EXCEPT ![c].dependency =
                CASE disk.dependency = "ours" -> "matched"
                  [] disk.dependency = "other" -> "failed"
                  [] disk.dependency = Unreadable -> "skipped"]
  /\ UNCHANGED <<disk, environment, manifest, changes>>

VersionOf(m) == IF m = Malformed THEN NoVersion ELSE m

\* All three checks are in.  What the runtime is capable of does not change, so
\* it does not matter when it was asked; the version is that of the field now.
Report(c) ==
  /\ At(c, "checking")
  /\ call[c].reading \notin DOMAIN CriticalFiles
  /\ call[c].dependency # "pending"
  /\ call' = [call EXCEPT
       ![c].step = "reported",
       ![c].passed = /\ \A f \in File : call[c].files[f] # "failed"
                     /\ call[c].dependency # "failed"
                     /\ environment = Capability,
       ![c].packageVersion = VersionOf(manifest)]
  /\ UNCHANGED <<disk, environment, manifest, changes>>

\* A manifest that is null has no version to report: TypeError.
ReportThrows(c) ==
  /\ At(c, "checking")
  /\ call[c].reading \notin DOMAIN CriticalFiles
  /\ call[c].dependency # "pending"
  /\ manifest = Malformed
  /\ call' = [call EXCEPT ![c].step = "rejected"]
  /\ UNCHANGED <<disk, environment, manifest, changes>>

Next ==
  \/ \E f \in File, content \in Content : WriteFile(f, content)
  \/ \E m \in Version \cup {Malformed, Unreadable} : WriteManifest(m)
  \/ \E d \in {"ours", "other", Unreadable} : InstallDependency(d)
  \/ \E c \in Call :
       \/ Begin(c) \/ ReadManifest(c) \/ Load(c)
       \/ ReadCriticalFile(c) \/ ReadDependency(c)
       \/ Report(c) \/ ReportThrows(c)

Spec == Init /\ [][Next]_vars

-----------------------------------------------------------------------------
(***************************************************************************)
(* Properties                                                              *)
(***************************************************************************)

\* A file that was altered before a call began and is so still is not passed
\* over: not by deployments, nor by other calls that replace the manifest, nor by
\* one that breaks off, as long as each manifest held meanwhile lists the file.
AlteredFileIsReported ==
  \A c \in Call : \A f \in call[c].altered :
    At(c, "reported") /\ (\A m \in call[c].held : f \in Files(m)) => ~ call[c].passed

InOrder(v) ==
  /\ \A f \in DOMAIN Build[v] : disk.files[f] = Build[v][f]
  /\ disk.dependency # "other"
  /\ environment = Capability

\* A call during which the installation does not change, and no other call puts an
\* older answer in the manifest's place, passes exactly the installations that are
\* in order by the manifest they carry, and reports that manifest's version,
\* whatever earlier and overlapping calls have loaded.  In order is what the code
\* takes for it: a dependency of the right name, in whichever version.
QuietReportIsExact ==
  \A c \in Call : At(c, "reported") /\ call[c].quiet /\ disk.manifest \in Version =>
    /\ call[c].passed <=> InOrder(disk.manifest)
    /\ call[c].packageVersion = disk.manifest
=============================================================================
