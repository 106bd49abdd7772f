------------------------ MODULE IntegrityCheckProofs ------------------------
(***************************************************************************)
(* What a report of ProofPlaneIntegrityCheck is worth (src/src/events/     *)
(* integrity-check.ts), for any number of overlapping calls, any critical  *)
(* files and manifests, and whatever becomes of the installation.          *)
(*                                                                         *)
(* The invariant says of a call at its n-th file what it has found at the  *)
(* files before: of an altered file that every manifest held since the     *)
(* load lists, that it failed; and, while neither the installation has     *)
(* changed nor an older answer replaced the manifest, of each file what    *)
(* the manifest on the disk says of it.                                    *)
(***************************************************************************)
EXTENDS IntegrityCheck, WellFoundedInduction, TLAPS

FileCount == Len(CriticalFiles)

\* The files before the n-th which s must report have failed.
AlteredFailed(s, n) ==
  \A f \in s.altered : (\A m \in s.held : f \in Files(m)) =>
    \A j \in 1..(n - 1) : CriticalFiles[j] = f => s.files[f] = "failed"

\* The files before the n-th are as manifest v says and no others have failed.
FilesAsListed(s, n, v) ==
  /\ \A j \in 1..(n - 1) : CriticalFiles[j] \in DOMAIN Build[v] =>
       s.files[CriticalFiles[j]]
         = FileOutcome(Build[v][CriticalFiles[j]], disk.files[CriticalFiles[j]])
  /\ \A f \in File : s.files[f] = "failed" =>
       f \in DOMAIN Build[v] /\ disk.files[f] # Build[v][f]

DependencyAsFound(s) ==
  /\ s.dependency = "failed" => disk.dependency = "other"
  /\ s.dependency # "pending" /\ disk.dependency = "other" => s.dependency = "failed"

\* The file that s awaits is compared with what m lists for it.
Expects(s, m) ==
  s.reading \in DOMAIN CriticalFiles =>
    /\ CriticalFiles[s.reading] \in Files(m)
    /\ s.expected = Build[m][CriticalFiles[s.reading]]

Quiet(s) == s.quiet /\ disk.manifest \in Version

Loading(s) ==
  /\ s.dependency = "pending" /\ \A f \in File : s.files[f] = "pending"
  /\ s.step = "answered" /\ Quiet(s) => s.answer = disk.manifest

Checking(s) ==
  /\ manifest \in s.held
  /\ s.reading \in DOMAIN CriticalFiles => s.expected \in Listed
  /\ AlteredFailed(s, s.reading)
  /\ Quiet(s) =>
       /\ manifest = disk.manifest
       /\ Expects(s, disk.manifest)
       /\ FilesAsListed(s, s.reading, disk.manifest)
       /\ DependencyAsFound(s)

Reported(s) ==
  /\ \A f \in s.altered : (\A m \in s.held : f \in Files(m)) => ~ s.passed
  /\ Quiet(s) => /\ s.passed <=> InOrder(disk.manifest)
                 /\ s.packageVersion = disk.manifest

Sound(s) ==
  /\ s.altered \subseteq Altered(disk)
  /\ s.step \in {"loading", "answered"} => Loading(s)
  /\ s.step = "checking" => Checking(s)
  /\ s.step = "reported" => Reported(s)

CallsSound == \A c \in Call : Sound(call[c])

CheckInv == TypeOK /\ CallsSound

-----------------------------------------------------------------------------
(***************************************************************************)
(* The operators of the model.                                             *)
(***************************************************************************)
LEMMA FilesFacts ==
  /\ FileCount \in Nat /\ DOMAIN CriticalFiles = 1..FileCount
  /\ \A n \in 1..FileCount : CriticalFiles[n] \in File
  /\ \A f \in File : \E n \in 1..FileCount : CriticalFiles[n] = f
BY ParameterTypes DEF FileCount, File

LEMMA ListedFacts ==
  ASSUME NEW m, NEW f \in Files(m)
  PROVE  m \in Version /\ f \in File /\ f \in DOMAIN Build[m] /\ Build[m][f] \in Listed
<1>1. m \in Version /\ f \in DOMAIN Build[m]
  BY DEF Files
<1>2. f \in File
  BY <1>1, ParameterTypes
<1>3. Build[m][f] \in Listed
  BY <1>1 DEF Listed
<1>4. QED BY <1>1, <1>2, <1>3

\* The loop stops at the first listed file from the n-th on, or behind the last.
LEMMA NextListedFacts ==
  ASSUME NEW m, NEW n \in 1..(FileCount + 1), NEW k, k = NextListed(m, n)
  PROVE  /\ k \in n..(FileCount + 1)
         /\ k \in DOMAIN CriticalFiles => CriticalFiles[k] \in Files(m)
         /\ \A j \in n..(k - 1) : CriticalFiles[j] \notin Files(m)
<1> DEFINE T == {i \in n..(FileCount + 1) : i \in DOMAIN CriticalFiles => CriticalFiles[i] \in Files(m)}
<1>1. FileCount \in Nat /\ DOMAIN CriticalFiles = 1..FileCount
  BY FilesFacts
<1>2. FileCount + 1 \in T
  BY <1>1
<1>3. T \subseteq Nat /\ T # {}
  <2>1. n..(FileCount + 1) \subseteq Nat
    BY <1>1
  <2>2. QED BY <1>2, <2>1
<1>4. PICK i \in T : \A j \in T : i <= j
  <2> DEFINE R == OpToRel(<, Nat)
  <2>1. \A j, h \in Nat : j < h => <<j, h>> \in R
    BY DEF OpToRel
  <2>2. IsWellFoundedOn(R, Nat)
    BY NatLessThanWellFounded
  <2> HIDE DEF R, T
  <2>3. PICK i \in T : \A j \in T : ~ (<<j, i>> \in R)
    BY <1>3, <2>2, WFMin
  <2>4. \A j \in T : i <= j
    <3>1. TAKE j \in T
    <3>2. i \in Nat /\ j \in Nat /\ ~ (j < i)
      BY <1>3, <2>1, <2>3
    <3>3. QED BY <3>2
  <2>5. QED BY <2>3, <2>4
<1>5. \A j \in n..(i - 1) : CriticalFiles[j] \notin Files(m)
  <2>1. TAKE j \in n..(i - 1)
  <2>2. j \in n..(FileCount + 1) /\ j \in 1..FileCount /\ ~ (i <= j)
    BY <1>1, <1>4
  <2>3. j \notin T
    BY <1>4, <2>2
  <2>4. QED BY <2>2, <2>3
<1>6. \E i1 \in n..(FileCount + 1) :
        /\ i1 \in DOMAIN CriticalFiles => CriticalFiles[i1] \in Files(m)
        /\ \A j \in n..(i1 - 1) : CriticalFiles[j] \notin Files(m)
  BY <1>4, <1>5
<1>7. QED BY <1>6 DEF NextListed, FileCount

\* GoOn breaks off, or comes to the next file that m lists; files it passes over
\* are not listed and are the only ones whose outcome it touches.
LEMMA GoOnFacts ==
  ASSUME NEW s \in CallState, s.step = "checking", NEW m, NEW n \in 1..(FileCount + 1),
         NEW t, t = GoOn(s, m, n)
  PROVE  /\ t \in CallState
         /\ t.quiet = s.quiet /\ t.held = s.held /\ t.altered = s.altered
         /\ t.dependency = s.dependency
         /\ \/ t.step = "rejected"
            \/ /\ t.step = "checking"
               /\ t.reading \in n..(FileCount + 1)
               /\ Expects(t, m)
               /\ \A j \in n..(t.reading - 1) : CriticalFiles[j] \notin Files(m)
               /\ \A f \in Files(m) : t.files[f] = s.files[f]
               /\ \A f \in File : t.files[f] \in {s.files[f], "skipped"}
<1>1. FileCount \in Nat /\ DOMAIN CriticalFiles = 1..FileCount
  BY FilesFacts
<1>2. s.files \in [File -> Outcome]
  BY DEF CallState
<1>3. CASE n > FileCount
  <2>1. t = [s EXCEPT !.reading = n] /\ n = FileCount + 1
    BY <1>1, <1>3 DEF GoOn, FileCount
  <2>2. t \in CallState
    BY <2>1 DEF CallState, FileCount
  <2>3. t.step = "checking" /\ t.reading = n /\ t.files = s.files
          /\ t.quiet = s.quiet /\ t.held = s.held /\ t.altered = s.altered
          /\ t.dependency = s.dependency
    BY <2>1 DEF CallState
  <2>4. Expects(t, m)
    BY <1>1, <2>1, <2>3 DEF Expects
  <2>5. n..(t.reading - 1) = {} /\ t.reading \in n..(FileCount + 1)
    BY <1>1, <2>1, <2>3
  <2>6. QED BY <2>2, <2>3, <2>4, <2>5
<1>4. CASE n <= FileCount /\ m = Malformed
  <2>1. t = [s EXCEPT !.step = "rejected"]
    BY <1>1, <1>4 DEF GoOn, FileCount
  <2>2. QED BY <2>1 DEF CallState
<1>5. CASE n <= FileCount /\ m # Malformed
  <2> DEFINE k == NextListed(m, n)
             e == IF k \in DOMAIN CriticalFiles THEN Build[m][CriticalFiles[k]] ELSE s.expected
             g == [f \in File |-> IF \E j \in n..(k - 1) : CriticalFiles[j] = f
                                  THEN "skipped" ELSE s.files[f]]
  <2>1. /\ k \in n..(FileCount + 1)
        /\ k \in DOMAIN CriticalFiles => CriticalFiles[k] \in Files(m)
        /\ \A j \in n..(k - 1) : CriticalFiles[j] \notin Files(m)
    BY NextListedFacts
  <2>2. t = [s EXCEPT !.reading = k, !.expected = e, !.files = g]
    BY <1>1, <1>5 DEF GoOn, FileCount
  <2>3. g \in [File -> Outcome]
    BY <1>2 DEF Outcome
  <2>4. e \in Listed \cup {Unreadable}
    <3>1. CASE k \in DOMAIN CriticalFiles
      BY <2>1, <3>1, ListedFacts
    <3>2. CASE k \notin DOMAIN CriticalFiles
      BY <3>2 DEF CallState
    <3>3. QED BY <3>1, <3>2
  <2>5. k \in 1..(FileCount + 1)
    BY <1>1, <2>1
  <2>6. \A f \in File : g[f] \in {s.files[f], "skipped"}
    OBVIOUS
  <2>7. \A f \in Files(m) : g[f] = s.files[f]
    <3>1. TAKE f \in Files(m)
    <3>2. f \in File
      BY ListedFacts
    <3>3. ~ \E j \in n..(k - 1) : CriticalFiles[j] = f
      BY <2>1
    <3>4. QED BY <3>2, <3>3
  <2>8. k \in DOMAIN CriticalFiles => e = Build[m][CriticalFiles[k]]
    OBVIOUS
  <2> HIDE DEF k, e, g
  <2>9. t \in CallState /\ t.step = "checking" /\ t.reading = k /\ t.expected = e /\ t.files = g
          /\ t.quiet = s.quiet /\ t.held = s.held /\ t.altered = s.altered
          /\ t.dependency = s.dependency
    BY <2>2, <2>3, <2>4, <2>5 DEF CallState, FileCount
  <2>10. Expects(t, m)
    BY <2>1, <2>8, <2>9 DEF Expects
  <2>11. QED BY <2>1, <2>6, <2>7, <2>9, <2>10
<1>6. QED BY <1>1, <1>3, <1>4, <1>5

-----------------------------------------------------------------------------
(***************************************************************************)
(* Every action leaves the calls sound.                                    *)
(***************************************************************************)
LEMMA CheckInit == ASSUME Init PROVE CheckInv
<1>1. NoCall \in CallState
  <2>1. FileCount \in Nat
    BY FilesFacts
  <2>2. QED BY <2>1 DEF NoCall, CallState, Outcome, FileCount
<1>2. PICK v \in Version : disk \in Installed(v)
  BY DEF Init
<1>3. \A f \in DOMAIN Build[v] : Build[v][f] \in Listed
  BY DEF Listed
<1>4. disk \in [manifest : Version \cup {Malformed, Unreadable}, files : [File -> Content],
                dependency : {"ours", "other", Unreadable}]
  BY <1>2 DEF Installed
<1>5. TypeOK
  BY <1>1, <1>4, ParameterTypes DEF Init, TypeOK, Manifest
<1>6. CallsSound
  BY DEF Init, CallsSound, Sound, NoCall, Altered
<1>7. QED BY <1>5, <1>6 DEF CheckInv

\* A change of the installation ends the quiet of every call, and what is still
\* altered after it was so before.
LEMMA ChangeSound ==
  ASSUME CheckInv, NEW d, Change(d),
         d \in [manifest : Version \cup {Malformed, Unreadable}, files : [File -> Content],
                dependency : {"ours", "other", Unreadable}]
  PROVE  CheckInv'
<1>1. call \in [Call -> CallState]
  BY DEF CheckInv, TypeOK
<1>2. \A c \in Call : call'[c] = [call[c] EXCEPT !.quiet = FALSE, !.altered = @ \cap Altered(d)]
  BY DEF Change
<1>3. ASSUME NEW c \in Call
      PROVE  /\ call'[c] \in CallState
             /\ call'[c].step = call[c].step /\ call'[c].reading = call[c].reading
             /\ call'[c].expected = call[c].expected /\ call'[c].files = call[c].files
             /\ call'[c].dependency = call[c].dependency /\ call'[c].held = call[c].held
             /\ call'[c].passed = call[c].passed
             /\ call'[c].quiet = FALSE /\ call'[c].altered = call[c].altered \cap Altered(d)
  <2> DEFINE s == call[c]
             a == s.altered \cap Altered(d)
  <2>1. s \in CallState /\ call'[c] = [s EXCEPT !.quiet = FALSE, !.altered = a]
    BY <1>1, <1>2
  <2>2. a \in SUBSET File
    BY DEF Altered
  <2> HIDE DEF s, a
  <2>3. /\ call'[c] \in CallState
        /\ call'[c].step = s.step /\ call'[c].reading = s.reading
        /\ call'[c].expected = s.expected /\ call'[c].files = s.files
        /\ call'[c].dependency = s.dependency /\ call'[c].held = s.held
        /\ call'[c].passed = s.passed
        /\ call'[c].quiet = FALSE /\ call'[c].altered = a
    BY <2>1, <2>2 DEF CallState
  <2>4. QED BY <2>3 DEF s, a
<1>4. TypeOK'
  <2>1. call' \in [Call -> CallState]
    BY <1>3 DEF Change
  <2>2. changes' \in 0..MaxChanges
    <3>1. changes \in 0..MaxChanges /\ changes < MaxChanges /\ changes' = changes + 1
      BY DEF Change, CheckInv, TypeOK
    <3>2. MaxChanges \in Nat
      BY ParameterTypes
    <3>3. QED BY <3>1, <3>2
  <2>3. QED BY <2>1, <2>2 DEF Change, CheckInv, TypeOK
<1>5. ASSUME NEW c \in Call PROVE Sound(call[c])'
  <2>1. Sound(call[c])
    BY DEF CheckInv, CallsSound
  <2>2. (call[c].altered)' \subseteq Altered(disk)' /\ (call[c].altered)' \subseteq call[c].altered
    BY <1>3 DEF Change
  <2>3. call'[c].step \in {"loading", "answered"} => Loading(call[c])'
    BY <1>3, <2>1 DEF Sound, Loading, Quiet
  <2>4. call'[c].step = "checking" => Checking(call[c])'
    <3> SUFFICES ASSUME call[c].step = "checking" PROVE Checking(call[c])'
      BY <1>3
    <3>1. Checking(call[c]) /\ manifest' = manifest
      BY <2>1 DEF Sound, Change
    <3>2. AlteredFailed(call[c], call[c].reading)'
      <4>1. AlteredFailed(call[c], call[c].reading)
        BY <3>1 DEF Checking
      <4>2. /\ call'[c].altered \subseteq call[c].altered
            /\ call'[c].held = call[c].held /\ call'[c].files = call[c].files
            /\ call'[c].reading = call[c].reading
        BY <1>3, <2>2
      <4>3. QED BY <4>1, <4>2 DEF AlteredFailed
    <3>3. ~ Quiet(call[c])'
      BY <1>3 DEF Quiet
    <3>4. QED BY <1>3, <3>1, <3>2, <3>3 DEF Checking
  <2>5. call'[c].step = "reported" => Reported(call[c])'
    BY <1>3, <2>1, <2>2 DEF Sound, Reported, Quiet, Change
  <2>6. QED BY <2>2, <2>3, <2>4, <2>5 DEF Sound
<1>6. QED BY <1>4, <1>5 DEF CheckInv, CallsSound

\* A step of one call that leaves the installation and the manifest alone.
LEMMA StepSound ==
  ASSUME CheckInv, NEW c \in Call, NEW s \in CallState, call' = [call EXCEPT ![c] = s],
         UNCHANGED <<disk, environment, manifest, changes>>, Sound(s)
  PROVE  CheckInv'
<1>1. call \in [Call -> CallState]
  BY DEF CheckInv, TypeOK
<1>2. TypeOK'
  BY <1>1 DEF CheckInv, TypeOK
<1>3. \A d \in Call : call'[d] = IF d = c THEN s ELSE call[d]
  BY <1>1
<1>4. ASSUME NEW t, Sound(t) PROVE Sound(t)'
  BY <1>4 DEF Sound, Loading, Checking, Reported, AlteredFailed, FilesAsListed, DependencyAsFound,
       Expects, Quiet, InOrder
<1>5. \A d \in Call : Sound(call'[d])
  BY <1>3 DEF CheckInv, CallsSound
<1>6. CallsSound'
  BY <1>4, <1>5 DEF CallsSound
<1>7. QED BY <1>2, <1>6 DEF CheckInv

\* A call of runAllChecks begins.
LEMMA BeginSound == ASSUME CheckInv, NEW c \in Call, Begin(c) PROVE CheckInv'
<1> DEFINE s == [NoCall EXCEPT !.step = "loading", !.altered = Altered(disk)]
<1>1. call' = [call EXCEPT ![c] = s] /\ UNCHANGED <<disk, environment, manifest, changes>>
  BY DEF Begin
<1>2. Altered(disk) \in SUBSET File /\ FileCount \in Nat
  BY FilesFacts DEF Altered
<1>3. s = [step |-> "loading", answer |-> Unreadable, reading |-> 1, expected |-> Unreadable,
           files |-> [f \in File |-> "pending"], dependency |-> "pending",
           passed |-> FALSE, packageVersion |-> NoVersion,
           quiet |-> TRUE, held |-> {}, altered |-> Altered(disk)]
  <2> DEFINE g == [f \in File |-> "pending"]
             a == Altered(disk)
             i == NoCall
  <2>1. /\ i = [step |-> "idle", answer |-> Unreadable, reading |-> 1, expected |-> Unreadable,
                files |-> g, dependency |-> "pending",
                passed |-> FALSE, packageVersion |-> NoVersion,
                quiet |-> TRUE, held |-> {}, altered |-> {}]
        /\ s = [i EXCEPT !.step = "loading", !.altered = a]
    BY DEF NoCall
  <2> HIDE DEF g, a, i, s
  <2>2. s = [step |-> "loading", answer |-> Unreadable, reading |-> 1, expected |-> Unreadable,
             files |-> g, dependency |-> "pending",
             passed |-> FALSE, packageVersion |-> NoVersion,
             quiet |-> TRUE, held |-> {}, altered |-> a]
    BY <2>1
  <2>3. QED BY <2>2 DEF g, a
<1> HIDE DEF s
<1>4. s \in CallState
  BY <1>2, <1>3 DEF CallState, Outcome, FileCount
<1>5. Sound(s)
  BY <1>3 DEF Sound, Loading
<1>6. QED BY <1>1, <1>4, <1>5, StepSound

\* readFile has its answer for a call.
LEMMA ReadManifestSound == ASSUME CheckInv, NEW c \in Call, ReadManifest(c) PROVE CheckInv'
<1>1. PICK s, t : s = call[c] /\ t = [s EXCEPT !.step = "answered", !.answer = disk.manifest]
  OBVIOUS
<1>2. /\ call' = [call EXCEPT ![c] = t] /\ UNCHANGED <<disk, environment, manifest, changes>>
      /\ s.step = "loading"
  BY <1>1 DEF ReadManifest, At
<1>3. s \in CallState /\ Sound(s) /\ disk.manifest \in Version \cup {Malformed, Unreadable}
  BY <1>1 DEF CheckInv, TypeOK, CallsSound
<1>4. /\ t \in CallState /\ t.step = "answered" /\ t.answer = disk.manifest
      /\ t.files = s.files /\ t.dependency = s.dependency /\ t.altered = s.altered
  BY <1>1, <1>3 DEF CallState
<1>5. Sound(t)
  BY <1>2, <1>3, <1>4 DEF Sound, Loading
<1>6. QED BY <1>2, <1>4, <1>5, StepSound

\* What a call has found so far stays found when it goes on.
LEMMA GoOnSound ==
  ASSUME CheckInv, NEW m \in Manifest, NEW s \in CallState, s.step = "checking",
         NEW n \in 1..(FileCount + 1), NEW t, t = GoOn(s, m, n),
         m \in s.held, s.altered \subseteq Altered(disk),
         AlteredFailed(s, n),
         Quiet(s) => /\ m = disk.manifest
                     /\ FilesAsListed(s, n, disk.manifest)
                     /\ DependencyAsFound(s)
  PROVE  /\ t \in CallState /\ t.held = s.held
         /\ t.altered \subseteq Altered(disk)
         /\ t.step \in {"checking", "rejected"}
         /\ t.step = "checking" =>
              /\ t.reading \in DOMAIN CriticalFiles => t.expected \in Listed
              /\ AlteredFailed(t, t.reading)
              /\ Quiet(t) => /\ m = disk.manifest
                             /\ Expects(t, disk.manifest)
                             /\ FilesAsListed(t, t.reading, disk.manifest)
                             /\ DependencyAsFound(t)
<1>1. /\ t \in CallState
      /\ t.quiet = s.quiet /\ t.held = s.held /\ t.altered = s.altered
      /\ t.dependency = s.dependency
      /\ \/ t.step = "rejected"
         \/ /\ t.step = "checking"
            /\ t.reading \in n..(FileCount + 1)
            /\ Expects(t, m)
            /\ \A j \in n..(t.reading - 1) : CriticalFiles[j] \notin Files(m)
            /\ \A f \in Files(m) : t.files[f] = s.files[f]
            /\ \A f \in File : t.files[f] \in {s.files[f], "skipped"}
  BY GoOnFacts
<1>2. SUFFICES ASSUME t.step = "checking"
               PROVE  /\ t.reading \in DOMAIN CriticalFiles => t.expected \in Listed
                      /\ AlteredFailed(t, t.reading)
                      /\ Quiet(t) => /\ m = disk.manifest
                                     /\ Expects(t, disk.manifest)
                                     /\ FilesAsListed(t, t.reading, disk.manifest)
                                     /\ DependencyAsFound(t)
  BY <1>1
<1> DEFINE r == t.reading
<1>3. /\ FileCount \in Nat /\ DOMAIN CriticalFiles = 1..FileCount
      /\ r \in n..(FileCount + 1) /\ n \in 1..(FileCount + 1)
      /\ Expects(t, m)
      /\ \A j \in n..(r - 1) : CriticalFiles[j] \notin Files(m)
      /\ \A f \in Files(m) : t.files[f] = s.files[f]
      /\ \A f \in File : t.files[f] \in {s.files[f], "skipped"}
  BY <1>1, <1>2, FilesFacts
<1>4. r \in DOMAIN CriticalFiles => t.expected \in Listed
  BY <1>3, ListedFacts DEF Expects
<1>5. \A j \in 1..(r - 1) : CriticalFiles[j] \in Files(m) => j \in 1..(n - 1)
  <2>1. \A j \in 1..(r - 1) : j \in 1..(n - 1) \/ j \in n..(r - 1)
    <3> HIDE DEF r
    <3>1. QED BY <1>3
  <2>2. QED BY <1>3, <2>1
<1>6. AlteredFailed(t, r)
  <2>1. SUFFICES ASSUME NEW f \in s.altered, \A h \in s.held : f \in Files(h),
                        NEW j \in 1..(r - 1), CriticalFiles[j] = f
                 PROVE  t.files[f] = "failed"
    BY <1>1 DEF AlteredFailed
  <2>2. f \in Files(m)
    BY <2>1
  <2>3. s.files[f] = "failed"
    BY <1>5, <2>1, <2>2 DEF AlteredFailed
  <2>4. QED BY <1>3, <2>2, <2>3
<1>7. ASSUME Quiet(t)
      PROVE  /\ m = disk.manifest
             /\ Expects(t, disk.manifest)
             /\ FilesAsListed(t, r, disk.manifest)
             /\ DependencyAsFound(t)
  <2>1. /\ m = disk.manifest /\ m \in Version
        /\ FilesAsListed(s, n, m) /\ DependencyAsFound(s)
    BY <1>1, <1>7 DEF Quiet
  <2>2. Files(m) = DOMAIN Build[m]
    BY <2>1 DEF Files
  <2>3. \A j \in 1..(r - 1) : CriticalFiles[j] \in DOMAIN Build[m] =>
          t.files[CriticalFiles[j]]
            = FileOutcome(Build[m][CriticalFiles[j]], disk.files[CriticalFiles[j]])
    BY <1>3, <1>5, <2>1, <2>2 DEF FilesAsListed
  <2>4. \A f \in File : t.files[f] = "failed" =>
          f \in DOMAIN Build[m] /\ disk.files[f] # Build[m][f]
    <3>1. TAKE f \in File
    <3>2. t.files[f] = "failed" => s.files[f] = "failed"
      BY <1>3
    <3>3. QED BY <2>1, <3>2 DEF FilesAsListed
  <2>5. FilesAsListed(t, r, m)
    BY <2>3, <2>4 DEF FilesAsListed
  <2>6. DependencyAsFound(t)
    BY <1>1, <2>1 DEF DependencyAsFound
  <2>7. QED BY <1>3, <2>1, <2>5, <2>6
<1>8. QED BY <1>4, <1>6, <1>7

\* The answer is put into the checker, for all its calls.
LEMMA LoadSound == ASSUME CheckInv, NEW c \in Call, Load(c) PROVE CheckInv'
<1> DEFINE m == Loaded(call[c].answer)
           s == [call[c] EXCEPT !.step = "checking"]
           t == GoOn(s, m, 1)
<1>1. /\ manifest' = m /\ UNCHANGED <<disk, environment, changes>>
      /\ call' = [d \in Call |-> IF d = c THEN [t EXCEPT !.answer = Unreadable, !.held = {m}]
                                 ELSE [call[d] EXCEPT !.held = @ \cup {m},
                                                      !.quiet = @ /\ ~ Disturbs(c, d)]]
      /\ call[c].step = "answered"
  BY DEF Load, At
<1>2. \A d \in Call : call[d] \in CallState /\ Sound(call[d])
  BY DEF CheckInv, TypeOK, CallsSound
<1>3. /\ m \in Manifest /\ (call[c].answer # Unreadable => m = call[c].answer)
      /\ call[c].answer = Unreadable => m = manifest
  <2>1. call[c].answer \in Version \cup {Malformed, Unreadable} /\ manifest \in Manifest
    BY <1>2 DEF CheckInv, TypeOK, CallState
  <2>2. QED BY <2>1 DEF Loaded, Manifest
<1>4. /\ s \in CallState /\ s.step = "checking" /\ s.altered = call[c].altered
      /\ s.files = call[c].files /\ s.dependency = call[c].dependency /\ s.quiet = call[c].quiet
  BY <1>2 DEF CallState
<1>5. FileCount \in Nat /\ 1 \in 1..(FileCount + 1) /\ DOMAIN CriticalFiles = 1..FileCount
  BY FilesFacts
<1>6. /\ Loading(s) /\ s.altered \subseteq Altered(disk)
      /\ Quiet(s) => m = disk.manifest
  <2>1. Sound(call[c]) /\ Loading(call[c])
    BY <1>1, <1>2 DEF Sound
  <2>2. Quiet(s) => call[c].answer = disk.manifest /\ disk.manifest # Unreadable
    BY <1>1, <1>4, <2>1, ParameterTypes DEF Loading, Quiet
  <2>3. QED BY <1>3, <1>4, <2>1, <2>2 DEF Sound, Loading
<1> DEFINE u == [s EXCEPT !.answer = Unreadable, !.held = {m}]
           v == [t EXCEPT !.answer = Unreadable, !.held = {m}]
<1>7. /\ u \in CallState /\ u.step = "checking" /\ u.held = {m} /\ u.altered = s.altered
      /\ u.files = s.files /\ u.dependency = s.dependency /\ u.quiet = s.quiet
  BY <1>3, <1>4 DEF CallState
\* It does not matter when answer and held are set, before GoOn or after it.
<1>8. v = GoOn(u, m, 1)
  <2> DEFINE k == NextListed(m, 1)
  <2> HIDE DEF k, s, m
  <2>1. CASE 1 > Len(CriticalFiles)
    BY <2>1, <1>4 DEF GoOn, CallState
  <2>2. CASE ~ (1 > Len(CriticalFiles)) /\ m = Malformed
    BY <2>2, <1>4 DEF GoOn, CallState
  <2>3. CASE ~ (1 > Len(CriticalFiles)) /\ m # Malformed
    BY <2>3, <1>4 DEF GoOn, CallState, k
  <2>4. QED BY <2>1, <2>2, <2>3
<1>9. AlteredFailed(u, 1)
  BY DEF AlteredFailed
<1>10. Quiet(u) => m = disk.manifest /\ FilesAsListed(u, 1, disk.manifest) /\ DependencyAsFound(u)
  BY <1>6, <1>7 DEF Quiet, FilesAsListed, DependencyAsFound, Loading
<1> HIDE DEF m, s, t, u, v
<1>11. /\ v \in CallState /\ v.held = u.held /\ v.altered \subseteq Altered(disk)
       /\ v.step \in {"checking", "rejected"}
       /\ v.step = "checking" =>
            /\ v.reading \in DOMAIN CriticalFiles => v.expected \in Listed
            /\ AlteredFailed(v, v.reading)
            /\ Quiet(v) => /\ m = disk.manifest
                           /\ Expects(v, disk.manifest)
                           /\ FilesAsListed(v, v.reading, disk.manifest)
                           /\ DependencyAsFound(v)
  BY <1>3, <1>5, <1>6, <1>7, <1>8, <1>9, <1>10, GoOnSound
<1>12. PICK w : w = v
  OBVIOUS
<1>13. Sound(w)'
  BY <1>1, <1>7, <1>11, <1>12 DEF Sound, Checking, Altered, AlteredFailed, Quiet, Expects,
       FilesAsListed, DependencyAsFound
<1>14. ASSUME NEW d \in Call, d # c
       PROVE  call'[d] \in CallState /\ Sound(call[d])'
  <2> DEFINE b == Disturbs(c, d)
  <2>0. PICK x, y, q : x = call[d] /\ q = (x.quiet /\ ~ b)
                       /\ y = [x EXCEPT !.held = @ \cup {m}, !.quiet = q]
    OBVIOUS
  <2>1. x \in CallState /\ Sound(x) /\ call'[d] = y
    BY <1>1, <1>2, <1>14, <2>0
  <2>9. b <=> x.step = "checking" /\ call[c].answer \notin {disk.manifest, Unreadable}
    BY <2>0 DEF Disturbs, At
  <2> HIDE DEF b
  <2>10. q \in BOOLEAN /\ (q => x.quiet /\ ~ b)
    BY <2>0
  <2>2. /\ y \in CallState /\ y.step = x.step /\ y.reading = x.reading /\ y.expected = x.expected
        /\ y.files = x.files /\ y.dependency = x.dependency /\ y.passed = x.passed
        /\ y.packageVersion = x.packageVersion /\ y.quiet = q /\ y.answer = x.answer
        /\ y.held = x.held \cup {m} /\ y.altered = x.altered
    <3>1. y = [x EXCEPT !.held = x.held \cup {m}, !.quiet = q]
      BY <2>0
    <3>2. x \in CallState
      BY <2>1
    <3>3. QED BY <1>3, <2>10, <3>1, <3>2 DEF CallState
  <2>3. ASSUME y.step \in {"loading", "answered"} PROVE Loading(y)
    <3>1. Loading(x)
      BY <2>1, <2>2, <2>3 DEF Sound
    <3>2. y.quiet => x.quiet
      BY <2>2, <2>10
    <3>3. y.dependency = "pending" /\ \A f \in File : y.files[f] = "pending"
      BY <2>2, <3>1 DEF Loading
    <3>4. y.step = "answered" /\ Quiet(y) => y.answer = disk.manifest
      BY <2>2, <3>1, <3>2 DEF Loading, Quiet
    <3>5. QED BY <3>3, <3>4 DEF Loading
  <2>4. ASSUME y.step = "checking" PROVE Checking(y)'
    <3>1. Checking(x)
      BY <2>1, <2>2, <2>4 DEF Sound
    <3>2. AlteredFailed(y, y.reading)
      BY <2>2, <3>1 DEF Checking, AlteredFailed
    <3>3. Quiet(y) => /\ m = disk.manifest
                      /\ Expects(y, disk.manifest)
                      /\ FilesAsListed(y, y.reading, disk.manifest)
                      /\ DependencyAsFound(y)
      <4>1. SUFFICES ASSUME Quiet(y)
                     PROVE  /\ m = disk.manifest
                            /\ Expects(y, disk.manifest)
                            /\ FilesAsListed(y, y.reading, disk.manifest)
                            /\ DependencyAsFound(y)
        OBVIOUS
      <4>2. Quiet(x) /\ call[c].answer \in {disk.manifest, Unreadable}
        BY <2>2, <2>4, <2>9, <2>10, <4>1 DEF Quiet
      <4>3. /\ manifest = disk.manifest
            /\ Expects(x, disk.manifest)
            /\ FilesAsListed(x, x.reading, disk.manifest)
            /\ DependencyAsFound(x)
        BY <3>1, <4>2 DEF Checking
      <4>4. m = disk.manifest
        BY <1>3, <4>2, <4>3
      <4>5. QED BY <2>2, <4>3, <4>4 DEF Expects, FilesAsListed, DependencyAsFound
    <3>4. QED
      BY <1>1, <2>2, <3>1, <3>2, <3>3 DEF Checking, AlteredFailed, Quiet, Expects,
           FilesAsListed, DependencyAsFound
  <2>5. ASSUME y.step = "reported" PROVE Reported(y)'
    <3>1. Reported(x)
      BY <2>1, <2>2, <2>5 DEF Sound
    <3>2. y.quiet => x.quiet
      BY <2>2, <2>10
    <3>3. QED BY <1>1, <2>2, <3>1, <3>2 DEF Reported, Quiet, InOrder
  <2>6. y.altered \subseteq Altered(disk)'
    BY <1>1, <2>1, <2>2 DEF Sound, Altered
  <2>7. Sound(y)'
    BY <1>1, <2>3, <2>4, <2>5, <2>6 DEF Sound, Loading, Quiet
  <2>8. QED BY <2>1, <2>2, <2>7
<1>15. call'[c] = v /\ call' \in [Call -> CallState]
  BY <1>1, <1>11, <1>14 DEF v
<1>16. TypeOK'
  BY <1>1, <1>3, <1>15 DEF CheckInv, TypeOK
<1>17. CallsSound'
  BY <1>12, <1>13, <1>14, <1>15 DEF CallsSound
<1>18. QED BY <1>16, <1>17 DEF CheckInv

LEMMA ReadFileSound == ASSUME CheckInv, NEW c \in Call, ReadCriticalFile(c) PROVE CheckInv'
<1> DEFINE f == CriticalFiles[call[c].reading]
           o == FileOutcome(call[c].expected, disk.files[f])
<1>1. PICK s : s = call[c]
  OBVIOUS
<1>2. PICK u : u = [s EXCEPT !.files[f] = o]
  OBVIOUS
<1>3. PICK t : t = GoOn(u, manifest, s.reading + 1)
  OBVIOUS
<1>4. /\ call' = [call EXCEPT ![c] = t] /\ UNCHANGED <<disk, environment, manifest, changes>>
      /\ s.step = "checking" /\ s.reading \in DOMAIN CriticalFiles
  BY <1>1, <1>2, <1>3 DEF ReadCriticalFile, At
<1>5. s \in CallState /\ Sound(s) /\ Checking(s) /\ s.files \in [File -> Outcome]
  BY <1>1, <1>4 DEF CheckInv, TypeOK, CallsSound, Sound, CallState
<1>6. FileCount \in Nat /\ DOMAIN CriticalFiles = 1..FileCount /\ f \in File
        /\ s.reading + 1 \in 1..(FileCount + 1)
  BY <1>1, <1>4, FilesFacts
<1>7. o \in {"matched", "failed"}
  BY DEF FileOutcome
<1>8. /\ s.expected \in Listed /\ manifest \in s.held
      /\ f \in s.altered => o = "failed"
  <2>1. s.expected \in Listed /\ manifest \in s.held
    BY <1>4, <1>5 DEF Checking
  <2>2. ASSUME f \in s.altered PROVE o = "failed"
    <3>1. disk.files[f] \in Unlisted
      BY <1>5, <2>2 DEF Sound, Altered
    <3>2. QED BY <1>1, <2>1, <3>1, NotListed DEF FileOutcome
  <2>3. QED BY <2>1, <2>2
<1>9. Quiet(s) => /\ f \in DOMAIN Build[disk.manifest]
                  /\ o = FileOutcome(Build[disk.manifest][f], disk.files[f])
  BY <1>1, <1>4, <1>5 DEF Checking, Expects, Files, Quiet
<1> HIDE DEF f, o
<1>10. /\ u \in CallState /\ u.step = "checking" /\ u.held = s.held /\ u.altered = s.altered
       /\ u.files = [s.files EXCEPT ![f] = o] /\ u.dependency = s.dependency
       /\ u.quiet = s.quiet
  <2>1. [s.files EXCEPT ![f] = o] \in [File -> Outcome]
    BY <1>5, <1>6, <1>7 DEF Outcome
  <2>2. u = [s EXCEPT !.files = [s.files EXCEPT ![f] = o]]
    BY <1>2
  <2>3. QED BY <1>4, <1>5, <2>1, <2>2 DEF CallState
<1>11. \A g \in File : u.files[g] = IF g = f THEN o ELSE s.files[g]
  BY <1>5, <1>6, <1>10
<1>12. \A j \in 1..((s.reading + 1) - 1) :
         (j \in 1..(s.reading - 1) \/ j = s.reading) /\ CriticalFiles[j] \in File
  BY <1>4, <1>6, FilesFacts
<1>13. AlteredFailed(u, s.reading + 1)
  <2>1. SUFFICES ASSUME NEW g \in s.altered, \A m \in s.held : g \in Files(m),
                        NEW j \in 1..((s.reading + 1) - 1), CriticalFiles[j] = g
                 PROVE  u.files[g] = "failed"
    BY <1>10 DEF AlteredFailed
  <2>2. CASE g = f
    BY <1>6, <1>8, <1>11, <2>2
  <2>3. CASE g # f
    <3>1. j \in 1..(s.reading - 1)
      BY <1>1, <1>12, <2>1, <2>3 DEF f
    <3>2. s.files[g] = "failed"
      BY <1>5, <2>1, <3>1 DEF Checking, AlteredFailed
    <3>3. QED BY <1>11, <1>12, <2>1, <2>3, <3>2
  <2>4. QED BY <2>2, <2>3
<1>14. Quiet(u) => /\ manifest = disk.manifest
                   /\ FilesAsListed(u, s.reading + 1, disk.manifest)
                   /\ DependencyAsFound(u)
  <2>1. SUFFICES ASSUME Quiet(u)
                 PROVE  /\ manifest = disk.manifest
                        /\ FilesAsListed(u, s.reading + 1, disk.manifest)
                        /\ DependencyAsFound(u)
    OBVIOUS
  <2>2. Quiet(s)
    BY <1>10, <2>1 DEF Quiet
  <2>3. /\ manifest = disk.manifest /\ DependencyAsFound(s)
        /\ FilesAsListed(s, s.reading, disk.manifest)
    BY <1>5, <2>2 DEF Checking
  <2>4. DependencyAsFound(u)
    BY <1>10, <2>3 DEF DependencyAsFound
  <2>5. \A j \in 1..((s.reading + 1) - 1) : CriticalFiles[j] \in DOMAIN Build[disk.manifest] =>
          u.files[CriticalFiles[j]]
            = FileOutcome(Build[disk.manifest][CriticalFiles[j]], disk.files[CriticalFiles[j]])
    <3>1. TAKE j \in 1..((s.reading + 1) - 1)
    <3>2. CASE CriticalFiles[j] = f
      BY <1>6, <1>9, <1>11, <2>2, <3>2
    <3>3. CASE CriticalFiles[j] # f
      <4>1. j \in 1..(s.reading - 1) /\ CriticalFiles[j] \in File
        BY <1>1, <1>12, <3>3 DEF f
      <4>2. u.files[CriticalFiles[j]] = s.files[CriticalFiles[j]]
        BY <1>11, <3>3, <4>1
      <4>3. QED BY <2>3, <4>1, <4>2 DEF FilesAsListed
    <3>4. QED BY <3>2, <3>3
  <2>6. \A g \in File : u.files[g] = "failed" =>
          g \in DOMAIN Build[disk.manifest] /\ disk.files[g] # Build[disk.manifest][g]
    <3>1. TAKE g \in File
    <3>2. CASE g = f
      BY <1>9, <1>11, <2>2, <3>2 DEF FileOutcome
    <3>3. CASE g # f
      BY <1>11, <2>3, <3>3 DEF FilesAsListed
    <3>4. QED BY <3>2, <3>3
  <2>7. QED BY <2>3, <2>4, <2>5, <2>6 DEF FilesAsListed
<1>15. manifest \in Manifest /\ s.altered \subseteq Altered(disk)
  BY <1>5 DEF CheckInv, TypeOK, Sound
<1>16. /\ t \in CallState /\ t.held = u.held
       /\ t.altered \subseteq Altered(disk)
       /\ t.step \in {"checking", "rejected"}
       /\ t.step = "checking" =>
            /\ t.reading \in DOMAIN CriticalFiles => t.expected \in Listed
            /\ AlteredFailed(t, t.reading)
            /\ Quiet(t) => /\ manifest = disk.manifest
                           /\ Expects(t, disk.manifest)
                           /\ FilesAsListed(t, t.reading, disk.manifest)
                           /\ DependencyAsFound(t)
  BY <1>3, <1>6, <1>8, <1>10, <1>13, <1>14, <1>15, GoOnSound
<1>17. Sound(t)
  BY <1>8, <1>10, <1>16 DEF Sound, Checking
<1>18. QED BY <1>4, <1>16, <1>17, StepSound

LEMMA ReadDependencySound == ASSUME CheckInv, NEW c \in Call, ReadDependency(c) PROVE CheckInv'
<1> DEFINE o == CASE disk.dependency = "ours" -> "matched"
                  [] disk.dependency = "other" -> "failed"
                  [] disk.dependency = Unreadable -> "skipped"
<1>1. PICK s : s = call[c]
  OBVIOUS
<1>2. PICK t : t = [s EXCEPT !.dependency = o]
  OBVIOUS
<1>3. /\ call' = [call EXCEPT ![c] = t] /\ UNCHANGED <<disk, environment, manifest, changes>>
      /\ s.step = "checking"
  BY <1>1, <1>2 DEF ReadDependency, At
<1>4. s \in CallState /\ Sound(s) /\ Checking(s)
  BY <1>1, <1>3 DEF CheckInv, TypeOK, CallsSound, Sound
<1>5. o \in {"matched", "failed", "skipped"} /\ (o = "failed" <=> disk.dependency = "other")
  BY DEF CheckInv, TypeOK, Unreadable
<1> HIDE DEF o
<1>6. /\ t \in CallState /\ t.step = "checking" /\ t.held = s.held /\ t.altered = s.altered
      /\ t.files = s.files /\ t.dependency = o /\ t.quiet = s.quiet
      /\ t.reading = s.reading /\ t.expected = s.expected
  BY <1>2, <1>3, <1>4, <1>5 DEF CallState, Outcome
<1>7. DependencyAsFound(t)
  BY <1>5, <1>6 DEF DependencyAsFound
<1>8. Checking(t)
  BY <1>4, <1>6, <1>7 DEF Checking, AlteredFailed, Quiet, Expects, FilesAsListed
<1>9. Sound(t)
  BY <1>4, <1>6, <1>8 DEF Sound
<1>10. QED BY <1>3, <1>6, <1>9, StepSound

LEMMA ReportSound == ASSUME CheckInv, NEW c \in Call, Report(c) PROVE CheckInv'
<1> DEFINE p == /\ \A f \in File : call[c].files[f] # "failed"
                /\ call[c].dependency # "failed"
                /\ environment = Capability
           v == VersionOf(manifest)
<1>1. PICK s : s = call[c]
  OBVIOUS
<1>2. PICK t : t = [s EXCEPT !.step = "reported", !.passed = p, !.packageVersion = v]
  OBVIOUS
<1>3. /\ call' = [call EXCEPT ![c] = t] /\ UNCHANGED <<disk, environment, manifest, changes>>
      /\ s.step = "checking" /\ s.reading \notin DOMAIN CriticalFiles
      /\ s.dependency # "pending"
  BY <1>1, <1>2 DEF Report, At
<1>4. s \in CallState /\ Sound(s) /\ Checking(s)
  BY <1>1, <1>3 DEF CheckInv, TypeOK, CallsSound, Sound
<1>5. p \in BOOLEAN /\ (p <=> /\ \A f \in File : s.files[f] # "failed"
                              /\ s.dependency # "failed"
                              /\ environment = Capability)
  BY <1>1
<1>6. v \in Version \cup {Placeholder, NoVersion}
        /\ (manifest \in Version => v = manifest)
  BY ParameterTypes DEF CheckInv, TypeOK, Manifest, VersionOf
<1> HIDE DEF p, v
<1>7. /\ t \in CallState /\ t.step = "reported" /\ t.held = s.held /\ t.altered = s.altered
      /\ t.quiet = s.quiet /\ t.passed = p /\ t.packageVersion = v
  BY <1>2, <1>4, <1>5, <1>6 DEF CallState
\* The loop is through: s has been at every file.
<1>8. \A f \in File : \E j \in 1..(s.reading - 1) : CriticalFiles[j] = f
  <2>1. FileCount \in Nat /\ DOMAIN CriticalFiles = 1..FileCount /\ s.reading = FileCount + 1
    BY <1>3, <1>4, FilesFacts DEF CallState, FileCount
  <2>2. 1..(s.reading - 1) = 1..FileCount
    BY <2>1
  <2>3. QED BY <2>2, FilesFacts
<1>9. \A f \in t.altered : (\A m \in t.held : f \in Files(m)) => ~ t.passed
  <2>1. SUFFICES ASSUME NEW f \in s.altered, \A m \in s.held : f \in Files(m)
                 PROVE  ~ p
    BY <1>7
  <2>2. f \in File
    BY <1>4 DEF CallState
  <2>3. s.files[f] = "failed"
    BY <1>4, <1>8, <2>1, <2>2 DEF Checking, AlteredFailed
  <2>4. QED BY <1>5, <2>2, <2>3
<1>10. ASSUME Quiet(t)
       PROVE  (t.passed <=> InOrder(disk.manifest)) /\ t.packageVersion = disk.manifest
  <2>1. /\ manifest = disk.manifest /\ disk.manifest \in Version
        /\ FilesAsListed(s, s.reading, disk.manifest) /\ DependencyAsFound(s)
    BY <1>4, <1>7, <1>10 DEF Checking, Quiet
  <2>2. (\A f \in File : s.files[f] # "failed")
          <=> \A f \in DOMAIN Build[disk.manifest] : disk.files[f] = Build[disk.manifest][f]
    <3>1. ASSUME \A f \in File : s.files[f] # "failed",
                 NEW f \in DOMAIN Build[disk.manifest]
          PROVE  disk.files[f] = Build[disk.manifest][f]
      <4>1. f \in File
        BY <2>1, ParameterTypes
      <4>2. PICK j \in 1..(s.reading - 1) : CriticalFiles[j] = f
        BY <1>8, <4>1
      <4>3. s.files[f] = FileOutcome(Build[disk.manifest][f], disk.files[f])
        BY <2>1, <4>2 DEF FilesAsListed
      <4>4. QED BY <3>1, <4>1, <4>3 DEF FileOutcome
    <3>2. ASSUME \A f \in DOMAIN Build[disk.manifest] : disk.files[f] = Build[disk.manifest][f],
                 NEW f \in File
          PROVE  s.files[f] # "failed"
      BY <2>1, <3>2 DEF FilesAsListed
    <3>3. QED BY <3>1, <3>2
  <2>3. s.dependency # "failed" <=> disk.dependency # "other"
    BY <1>3, <2>1 DEF DependencyAsFound
  <2>4. QED BY <1>5, <1>6, <1>7, <2>1, <2>2, <2>3 DEF InOrder
<1>11. Sound(t)
  BY <1>4, <1>7, <1>9, <1>10 DEF Sound, Reported
<1>12. QED BY <1>3, <1>7, <1>11, StepSound

\* A call that breaks off at the version of a null manifest reports nothing.
LEMMA ReportThrowsSound == ASSUME CheckInv, NEW c \in Call, ReportThrows(c) PROVE CheckInv'
<1>1. PICK s, t : s = call[c] /\ t = [s EXCEPT !.step = "rejected"]
  OBVIOUS
<1>2. call' = [call EXCEPT ![c] = t] /\ UNCHANGED <<disk, environment, manifest, changes>>
  BY <1>1 DEF ReportThrows
<1>3. s \in CallState /\ Sound(s)
  BY <1>1 DEF CheckInv, TypeOK, CallsSound
<1>4. t \in CallState /\ t.step = "rejected" /\ t.altered = s.altered
  BY <1>1, <1>3 DEF CallState
<1>5. Sound(t)
  BY <1>3, <1>4 DEF Sound
<1>6. QED BY <1>2, <1>4, <1>5, StepSound

LEMMA CheckNext == ASSUME CheckInv, [Next]_vars PROVE CheckInv'
<1>1. CASE UNCHANGED vars
  <2>1. TypeOK'
    BY <1>1 DEF CheckInv, TypeOK, vars
  <2>2. CallsSound'
    BY <1>1 DEF CheckInv, CallsSound, vars, Sound, Loading, Checking, Reported, Altered,
         AlteredFailed, FilesAsListed, DependencyAsFound, Expects, Quiet, InOrder
  <2>3. QED BY <2>1, <2>2 DEF CheckInv
<1>2. disk \in [manifest : Version \cup {Malformed, Unreadable}, files : [File -> Content],
                dependency : {"ours", "other", Unreadable}]
  BY DEF CheckInv, TypeOK
<1>3. ASSUME NEW f \in File, NEW content \in Content, WriteFile(f, content) PROVE CheckInv'
  <2>1. [disk EXCEPT !.files[f] = content] \in
          [manifest : Version \cup {Malformed, Unreadable}, files : [File -> Content],
           dependency : {"ours", "other", Unreadable}]
    BY <1>2
  <2>2. QED BY <1>3, <2>1, ChangeSound DEF WriteFile
<1>4. ASSUME NEW m \in Version \cup {Malformed, Unreadable}, WriteManifest(m) PROVE CheckInv'
  <2>1. [disk EXCEPT !.manifest = m] \in
          [manifest : Version \cup {Malformed, Unreadable}, files : [File -> Content],
           dependency : {"ours", "other", Unreadable}]
    BY <1>2
  <2>2. QED BY <1>4, <2>1, ChangeSound DEF WriteManifest
<1>5. ASSUME NEW d \in {"ours", "other", Unreadable}, InstallDependency(d) PROVE CheckInv'
  <2>1. [disk EXCEPT !.dependency = d] \in
          [manifest : Version \cup {Malformed, Unreadable}, files : [File -> Content],
           dependency : {"ours", "other", Unreadable}]
    BY <1>2
  <2>2. QED BY <1>5, <2>1, ChangeSound DEF InstallDependency
<1>6. QED
  BY <1>1, <1>3, <1>4, <1>5, BeginSound, ReadManifestSound, LoadSound, ReadFileSound,
     ReadDependencySound, ReportSound, ReportThrowsSound DEF Next

-----------------------------------------------------------------------------
LEMMA CheckAlways == Spec => []CheckInv
BY CheckInit, CheckNext, PTL DEF Spec

\* The variables have their types.
THEOREM CheckTypeCorrect == Spec => []TypeOK
<1>1. CheckInv => TypeOK
  BY DEF CheckInv
<1>2. QED BY <1>1, CheckAlways, PTL

\* runAllChecks, with any number of calls sharing this.manifest: a file that was
\* altered before a call began and is so still makes it fail, as long as each
\* manifest held meanwhile lists the file.
THEOREM AlteredFilesAreReported == Spec => []AlteredFileIsReported
<1>1. CheckInv => AlteredFileIsReported
  BY DEF CheckInv, CallsSound, Sound, Reported, AlteredFileIsReported, At
<1>2. QED BY <1>1, CheckAlways, PTL

\* runAllChecks over an installation that stays as it is: unless an older answer
\* replaces the manifest, a call passes it exactly if it is in order by the
\* manifest it carries, whatever else overlapping calls load.
THEOREM QuietReportsAreExact == Spec => []QuietReportIsExact
<1>1. CheckInv => QuietReportIsExact
  BY DEF CheckInv, CallsSound, Sound, Reported, Quiet, QuietReportIsExact, At
<1>2. QED BY <1>1, CheckAlways, PTL
=============================================================================
