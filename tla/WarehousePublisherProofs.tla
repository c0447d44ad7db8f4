----------------------- MODULE WarehousePublisherProofs -----------------------
(***************************************************************************)
(* Proofs about WarehousePublisher, for any number of actors, versions,    *)
(* paths and rollbacks, and a crash or an I/O error at any operation.      *)
(***************************************************************************)
EXTENDS WarehousePublisher, TLAPS

USE DEF disk, memory, vars

(* Before the manifest is whole.                                           *)
Building == {"batch", "verify", "move", "merge", "manifest"}

(* A version that is being built belongs to one actor, and its manifest is *)
(* not whole yet: nobody can roll back to it, and tearing it hurts nobody. *)
BuiltByOne ==
  \A a \in Actors :
    pc[a] \in Building =>
      /\ version[a] \in Versions
      /\ written[version[a]] # "whole"
      /\ \A b \in Actors : version[b] = version[a] => b = a

(* The files an actor's metadata describes, in a directory of the disk.    *)
Described(a, dir) ==
  \A m \in parts[a] : m.path \in DOMAIN dir /\ dir[m.path] = m.digest

(* publish_version up to the manifest: digests checked, files moved, and   *)
(* every entry of the merged plan stored.                                  *)
StagedMatches ==
  \A a \in Actors :
    pc[a] = "move" => version[a] \notin moved /\ Described(a, staging[version[a]])
MovedMatches ==
  \A a \in Actors :
    pc[a] \in {"merge", "manifest"} =>
      version[a] \in moved /\ Described(a, files[version[a]])
PlanStored == \A a \in Actors : pc[a] = "manifest" => Stored(plan[a])

(* A whole manifest lists stored files only, and only versions with a      *)
(* whole manifest are named by an actor about to replace the pointer, by   *)
(* current.json.tmp and by current.json.                                   *)
WholeStored ==
  \A v \in Versions : written[v] = "whole" => v \in moved /\ Stored(manifests[v])
Complete(v) == v \in Versions /\ written[v] = "whole"
NamesComplete ==
  /\ \A a \in Actors :
       pc[a] \in {"generation", "tmp", "replace"} => Complete(version[a])
  /\ tmp.state = "whole" => Complete(tmp.version)
  /\ pointer.state = "whole" => Complete(pointer.version)

DiskInv == /\ BuiltByOne /\ StagedMatches /\ MovedMatches /\ PlanStored
           /\ WholeStored /\ NamesComplete

WInv == TypeOK /\ DiskInv

----------------------------------------------------------------------------
(* Maps from paths.                                                        *)

LEMMA FilesDef ==
  ASSUME NEW S, NEW f
  PROVE  f \in Files(S) <=> f \in [DOMAIN f -> S] /\ DOMAIN f \subseteq Paths
BY DEF Files

LEMMA EmptyIsFiles == ASSUME NEW S PROVE Empty \in Files(S) /\ DOMAIN Empty = {}
BY FilesDef DEF Empty

(* Superseding entries keeps the type of a map.                            *)
LEMMA OverTyped ==
  ASSUME NEW S, NEW f \in Files(S), NEW g \in Files(S)
  PROVE  /\ Over(f, g) \in Files(S)
         /\ DOMAIN Over(f, g) = DOMAIN f \cup DOMAIN g
         /\ \A p \in DOMAIN Over(f, g) :
              Over(f, g)[p] = IF p \in DOMAIN f THEN f[p] ELSE g[p]
<1>1. /\ f \in [DOMAIN f -> S] /\ DOMAIN f \subseteq Paths
      /\ g \in [DOMAIN g -> S] /\ DOMAIN g \subseteq Paths
  BY FilesDef
<1>2. DOMAIN Over(f, g) = DOMAIN f \cup DOMAIN g
  BY DEF Over
<1>3. \A p \in DOMAIN Over(f, g) :
        Over(f, g)[p] = IF p \in DOMAIN f THEN f[p] ELSE g[p]
  BY DEF Over
<1>4. Over(f, g) \in [DOMAIN f \cup DOMAIN g -> S]
  BY <1>1 DEF Over
<1> QED
  BY <1>1, <1>2, <1>3, <1>4, FilesDef

(* The metadata of an actor gives a map of entries of its version.         *)
LEMMA NewEntriesTyped ==
  ASSUME NEW a \in Actors, parts[a] \subseteq Parts, version[a] \in Versions
  PROVE  /\ NewEntries(a) \in Files(Entries)
         /\ DOMAIN NewEntries(a) = {m.path : m \in parts[a]}
         /\ \A p \in DOMAIN NewEntries(a) :
              \E m \in parts[a] :
                /\ m.path = p
                /\ NewEntries(a)[p] = [digest |-> m.digest, source |-> version[a]]
<1> DEFINE D == {m.path : m \in parts[a]}
<1>1. DOMAIN NewEntries(a) = D
  BY DEF NewEntries
<1>2. ASSUME NEW p \in D
      PROVE  \E m \in parts[a] :
               /\ m.path = p
               /\ NewEntries(a)[p] = [digest |-> m.digest, source |-> version[a]]
  <2> DEFINE m == CHOOSE m \in parts[a] : m.path = p
  <2>1. m \in parts[a] /\ m.path = p
    BY <1>2
  <2>2. NewEntries(a)[p] = [digest |-> m.digest, source |-> version[a]]
    BY <1>2 DEF NewEntries, RecordedDigest
  <2> QED
    BY <2>1, <2>2
<1>3. ASSUME NEW p \in D
      PROVE  NewEntries(a)[p] \in Entries
  <2>1. PICK m \in parts[a] : NewEntries(a)[p] = [digest |-> m.digest, source |-> version[a]]
    BY <1>2
  <2>2. m.digest \in Digests
    BY DEF Parts
  <2> QED
    BY <2>1, <2>2 DEF Entries
<1>4. D \subseteq Paths
  BY DEF Parts
<1>5. NewEntries(a) \in [D -> Entries]
  BY <1>1, <1>3 DEF NewEntries
<1> QED
  BY <1>1, <1>2, <1>4, <1>5, FilesDef

(* Whether entries are stored, as a function of the disk.                  *)
StoredIn(e, M, F) ==
  \A p \in DOMAIN e :
    /\ e[p].source \in M
    /\ p \in DOMAIN F[e[p].source]
    /\ F[e[p].source][p] = e[p].digest

(* Overlaying entries on entries that are stored.                          *)
LEMMA StoredInOver ==
  ASSUME NEW f, NEW g, NEW M, NEW F, StoredIn(f, M, F), StoredIn(g, M, F)
  PROVE  StoredIn(Over(f, g), M, F)
BY DEF StoredIn, Over

----------------------------------------------------------------------------
LEMMA InitWInv == Init => WInv
<1> SUFFICES ASSUME Init PROVE WInv
  OBVIOUS
<1>1. TypeOK
  <2>1. Empty \in Files(Digests) /\ Empty \in Files(Entries)
    BY EmptyIsFiles
  <2>2. NoFile \in Pointers
    BY DEF NoFile, Pointers
  <2> QED
    BY <2>1, <2>2, PublisherAssumption DEF Init, TypeOK, Steps, PublisherAssumption
<1>2. DiskInv
  BY DEF Init, DiskInv, BuiltByOne, StagedMatches, MovedMatches, PlanStored,
    WholeStored, NamesComplete, Building, NoFile
<1> QED
  BY <1>1, <1>2 DEF WInv

LEMMA BeginBatchWInv ==
  ASSUME WInv, NEW a \in Actors, NEW v \in Versions, BeginBatch(a, v)
  PROVE  WInv'
<1> USE DEF WInv, BeginBatch, Goto
<1>1. TypeOK'
  BY EmptyIsFiles DEF TypeOK, Steps, Parts
<1>2. BuiltByOne'
  BY DEF TypeOK, DiskInv, BuiltByOne, WholeStored, Fresh, Building
<1>3. StagedMatches'
  BY DEF TypeOK, DiskInv, BuiltByOne, StagedMatches, Described, Building, Fresh
<1>4. MovedMatches' /\ PlanStored'
  BY DEF TypeOK, DiskInv, MovedMatches, PlanStored, Described, Stored
<1>5. WholeStored' /\ NamesComplete'
  BY DEF TypeOK, DiskInv, WholeStored, NamesComplete, Complete, Stored
<1> QED
  BY <1>1, <1>2, <1>3, <1>4, <1>5 DEF DiskInv

LEMMA StageWInv ==
  ASSUME WInv, NEW a \in Actors, NEW p \in Paths, NEW d \in Digests, Stage(a, p, d)
  PROVE  WInv'
<1> USE DEF WInv, Stage
<1>1. version[a] \in Versions
  BY DEF DiskInv, BuiltByOne, Building
<1>2. TypeOK'
  <2>1. [q \in {p} |-> d] \in Files(Digests)
    BY FilesDef
  <2>2. Over([q \in {p} |-> d], staging[version[a]]) \in Files(Digests)
    BY <1>1, <2>1, OverTyped DEF TypeOK
  <2>3. [path |-> p, digest |-> d] \in Parts
    BY DEF Parts
  <2> QED
    BY <2>2, <2>3 DEF TypeOK
<1>3. BuiltByOne'
  BY DEF DiskInv, BuiltByOne
<1>4. StagedMatches'
  BY DEF TypeOK, DiskInv, BuiltByOne, StagedMatches, Described, Building
<1>5. MovedMatches' /\ PlanStored'
  BY DEF TypeOK, DiskInv, MovedMatches, PlanStored, Described, Stored
<1>6. WholeStored' /\ NamesComplete'
  BY DEF DiskInv, WholeStored, NamesComplete, Complete, Stored
<1> QED
  BY <1>2, <1>3, <1>4, <1>5, <1>6 DEF DiskInv

(* Leaving the steps of a publication, or never entering them, while the   *)
(* disk stays as it is.                                                    *)
LEMMA LeaveWInv ==
  ASSUME WInv, TypeOK', UNCHANGED disk,
         NEW a \in Actors,
         \A b \in Actors \ {a} : /\ pc'[b] = pc[b] /\ version'[b] = version[b]
                                 /\ parts'[b] = parts[b] /\ plan'[b] = plan[b],
         pc'[a] \in {"idle", "returned", "raised"},
         version'[a] \in {version[a], NoVersion}
  PROVE  WInv'
<1> USE DEF WInv
<1>1. BuiltByOne'
  BY PublisherAssumption DEF PublisherAssumption, DiskInv, BuiltByOne, Building
<1>2. StagedMatches' /\ MovedMatches' /\ PlanStored'
  BY DEF DiskInv, StagedMatches, MovedMatches, PlanStored, Described, Stored
<1>3. WholeStored' /\ NamesComplete'
  BY DEF DiskInv, WholeStored, NamesComplete, Complete, Stored
<1> QED
  BY <1>1, <1>2, <1>3 DEF DiskInv

LEMMA AbandonWInv ==
  ASSUME WInv, NEW a \in Actors, Abandon(a)
  PROVE  WInv'
<1>1. TypeOK'
  BY DEF WInv, TypeOK, Steps, Abandon, Goto
<1> QED
  BY <1>1, LeaveWInv DEF WInv, TypeOK, Abandon, Goto

LEMMA ReturnWInv ==
  ASSUME WInv, NEW a \in Actors, Return(a)
  PROVE  WInv'
<1>1. TypeOK'
  BY EmptyIsFiles DEF WInv, TypeOK, Steps, Return
<1> QED
  BY <1>1, LeaveWInv DEF WInv, TypeOK, Return

LEMMA FlushBatchWInv ==
  ASSUME WInv, NEW a \in Actors, FlushBatch(a)
  PROVE  WInv'
<1> USE DEF WInv, FlushBatch, Goto
<1>1. TypeOK'
  BY DEF TypeOK, Steps, Publishing
<1>2. CASE parts[a] = {}
  BY <1>1, <1>2, LeaveWInv DEF TypeOK
<1>3. CASE parts[a] # {}
  <2>1. BuiltByOne'
    BY <1>3 DEF TypeOK, DiskInv, BuiltByOne, Building
  <2>2. StagedMatches' /\ MovedMatches' /\ PlanStored'
    BY <1>3 DEF TypeOK, DiskInv, StagedMatches, MovedMatches, PlanStored, Described, Stored
  <2>3. WholeStored' /\ NamesComplete'
    BY <1>3 DEF TypeOK, DiskInv, WholeStored, NamesComplete, Complete, Stored
  <2> QED
    BY <1>1, <2>1, <2>2, <2>3 DEF DiskInv
<1> QED
  BY <1>2, <1>3

(* The digests are checked here, and that the version is new.              *)
LEMMA VerifyWInv ==
  ASSUME WInv, NEW a \in Actors, Verify(a)
  PROVE  WInv'
<1> USE DEF WInv, Verify, Goto
<1>1. TypeOK'
  BY DEF TypeOK, Steps, Publishing
<1>2. CASE ~Verified(a)
  BY <1>1, <1>2, LeaveWInv DEF TypeOK
<1>3. CASE Verified(a)
  <2>1. BuiltByOne'
    BY <1>3 DEF TypeOK, DiskInv, BuiltByOne, Building
  <2>2. StagedMatches'
    BY <1>3 DEF TypeOK, DiskInv, StagedMatches, Described, Verified
  <2>3. MovedMatches' /\ PlanStored'
    BY <1>3 DEF TypeOK, DiskInv, MovedMatches, PlanStored, Described, Stored
  <2>4. WholeStored' /\ NamesComplete'
    BY <1>3 DEF TypeOK, DiskInv, WholeStored, NamesComplete, Complete, Stored
  <2> QED
    BY <1>1, <2>1, <2>2, <2>3, <2>4 DEF DiskInv
<1> QED
  BY <1>2, <1>3

(* The move adds one version and leaves the others as they are.            *)
LEMMA MoveWInv ==
  ASSUME WInv, NEW a \in Actors, Move(a)
  PROVE  WInv'
<1> USE DEF WInv, Move, Goto
<1>1. version[a] \in Versions /\ version[a] \notin moved
  BY DEF DiskInv, BuiltByOne, StagedMatches, Building
<1>2. TypeOK'
  BY <1>1, EmptyIsFiles DEF TypeOK, Steps, Publishing
<1>3. moved \subseteq moved' /\ \A v \in moved : files'[v] = files[v]
  BY <1>1 DEF TypeOK
<1>4. BuiltByOne'
  BY DEF TypeOK, DiskInv, BuiltByOne, Building
<1>5. StagedMatches'
  BY DEF TypeOK, DiskInv, BuiltByOne, StagedMatches, Described, Building
<1>6. MovedMatches'
  <2>1. ASSUME NEW b \in Actors, b # a, pc'[b] \in {"merge", "manifest"}
        PROVE  (version[b] \in moved /\ Described(b, files[version[b]]))'
    BY <1>3, <2>1 DEF TypeOK, DiskInv, MovedMatches, Described
  <2>2. (version[a] \in moved /\ Described(a, files[version[a]]))'
    BY <1>1 DEF TypeOK, DiskInv, StagedMatches, Described
  <2> QED
    BY <2>1, <2>2 DEF MovedMatches
<1>7. PlanStored' /\ WholeStored'
  <2>1. \A e : Stored(e) => StoredIn(e, moved, files)
    BY DEF Stored, StoredIn
  <2>2. \A e : StoredIn(e, moved, files) => StoredIn(e, moved', files')
    BY <1>3 DEF StoredIn
  <2>3. \A b \in Actors : pc'[b] = "manifest" => StoredIn(plan[b], moved', files')
    BY <2>1, <2>2 DEF TypeOK, DiskInv, PlanStored
  <2>4. \A v \in Versions :
          written[v] = "whole" => v \in moved' /\ StoredIn(manifests[v], moved', files')
    BY <1>3, <2>1, <2>2 DEF DiskInv, WholeStored
  <2> QED
    BY <2>3, <2>4 DEF PlanStored, WholeStored, Stored, StoredIn
<1>8. NamesComplete'
  BY DEF TypeOK, DiskInv, NamesComplete, Complete
<1> QED
  BY <1>2, <1>4, <1>5, <1>6, <1>7, <1>8 DEF DiskInv

(* The entries of the current manifest are stored, and so are the new.     *)
LEMMA MergeWInv ==
  ASSUME WInv, NEW a \in Actors, Merge(a)
  PROVE  WInv'
<1> USE DEF WInv, Merge, Goto
<1>1. /\ version[a] \in Versions /\ parts[a] \subseteq Parts
      /\ version[a] \in moved /\ Described(a, files[version[a]])
  BY DEF TypeOK, DiskInv, BuiltByOne, MovedMatches, Building
<1>2. CASE Refused
  <2>1. TypeOK'
    BY <1>2 DEF TypeOK, Steps
  <2> QED
    BY <1>2, <2>1, LeaveWInv DEF TypeOK
<1>3. CASE ~Refused
  <2> DEFINE e == Over(NewEntries(a), Predecessor)
  <2>1. Predecessor \in Files(Entries) /\ StoredIn(Predecessor, moved, files)
    <3>1. CASE pointer.state = "absent"
      BY <3>1, EmptyIsFiles DEF Predecessor, StoredIn
    <3>2. CASE pointer.state # "absent"
      <4>1. Complete(pointer.version)
        BY <1>3, <3>2 DEF TypeOK, Pointers, DiskInv, NamesComplete, Refused
      <4> QED
        BY <3>2, <4>1 DEF TypeOK, DiskInv, WholeStored, Complete, Predecessor,
          Stored, StoredIn
    <3> QED
      BY <3>1, <3>2
  <2>2. StoredIn(NewEntries(a), moved, files)
    <3> SUFFICES ASSUME NEW p \in DOMAIN NewEntries(a)
                 PROVE  LET s == NewEntries(a)[p].source
                        IN  s \in moved /\ p \in DOMAIN files[s]
                              /\ files[s][p] = NewEntries(a)[p].digest
      BY DEF StoredIn
    <3>1. PICK m \in parts[a] :
            /\ m.path = p
            /\ NewEntries(a)[p] = [digest |-> m.digest, source |-> version[a]]
      BY <1>1, NewEntriesTyped
    <3> QED
      BY <1>1, <3>1 DEF Described
  <2>3. e \in Files(Entries) /\ StoredIn(e, moved, files)
    BY <1>1, <2>1, <2>2, NewEntriesTyped, OverTyped, StoredInOver
  <2> HIDE DEF e
  <2>4. plan' = [plan EXCEPT ![a] = e] /\ pc' = [pc EXCEPT ![a] = "manifest"]
    BY <1>3 DEF e
  <2>5. TypeOK'
    BY <2>3, <2>4 DEF TypeOK, Steps, Publishing
  <2>6. BuiltByOne'
    BY <2>4 DEF TypeOK, DiskInv, BuiltByOne, Building
  <2>7. StagedMatches' /\ MovedMatches'
    BY <2>4 DEF TypeOK, DiskInv, StagedMatches, MovedMatches, Described
  <2>8. PlanStored'
    BY <2>3, <2>4 DEF TypeOK, DiskInv, PlanStored, Stored, StoredIn
  <2>9. WholeStored' /\ NamesComplete'
    BY <2>4 DEF TypeOK, DiskInv, WholeStored, NamesComplete, Complete, Stored
  <2> QED
    BY <2>5, <2>6, <2>7, <2>8, <2>9 DEF DiskInv
<1> QED
  BY <1>2, <1>3

(* From here on the version is complete, and stays so.                     *)
LEMMA WriteManifestWInv ==
  ASSUME WInv, NEW a \in Actors, WriteManifest(a)
  PROVE  WInv'
<1> USE DEF WInv, WriteManifest, Goto
<1>1. version[a] \in Versions /\ version[a] \in moved /\ Stored(plan[a])
  BY DEF DiskInv, BuiltByOne, MovedMatches, PlanStored, Building
<1>2. TypeOK'
  BY <1>1 DEF TypeOK, Steps, Publishing
<1>3. BuiltByOne'
  BY <1>1 DEF TypeOK, DiskInv, BuiltByOne, Building
<1>4. StagedMatches' /\ MovedMatches' /\ PlanStored'
  BY DEF TypeOK, DiskInv, StagedMatches, MovedMatches, PlanStored, Described, Stored
<1>5. WholeStored'
  BY <1>1 DEF TypeOK, DiskInv, WholeStored, Stored
<1>6. NamesComplete'
  BY <1>1 DEF TypeOK, DiskInv, NamesComplete, Complete
<1> QED
  BY <1>2, <1>3, <1>4, <1>5, <1>6 DEF DiskInv

LEMMA ReadGenerationWInv ==
  ASSUME WInv, NEW a \in Actors, ReadGeneration(a)
  PROVE  WInv'
<1> USE DEF WInv, ReadGeneration, Goto
<1>1. TypeOK'
  <2>1. NextGeneration \in Nat
    BY DEF TypeOK, Pointers, NextGeneration
  <2> QED
    BY <2>1 DEF TypeOK, Steps, Publishing
<1>2. BuiltByOne'
  BY DEF TypeOK, DiskInv, BuiltByOne, Building
<1>3. StagedMatches' /\ MovedMatches' /\ PlanStored'
  BY DEF TypeOK, DiskInv, StagedMatches, MovedMatches, PlanStored, Described, Stored
<1>4. WholeStored' /\ NamesComplete'
  BY DEF TypeOK, DiskInv, WholeStored, NamesComplete, Complete, Stored
<1> QED
  BY <1>1, <1>2, <1>3, <1>4 DEF DiskInv

LEMMA WriteTmpWInv ==
  ASSUME WInv, NEW a \in Actors, WriteTmp(a)
  PROVE  WInv'
<1> USE DEF WInv, WriteTmp, Goto
<1>1. TypeOK'
  BY DEF TypeOK, Steps, Publishing, Pointers
<1>2. BuiltByOne'
  BY DEF TypeOK, DiskInv, BuiltByOne, Building
<1>3. StagedMatches' /\ MovedMatches' /\ PlanStored'
  BY DEF TypeOK, DiskInv, StagedMatches, MovedMatches, PlanStored, Described, Stored
<1>4. WholeStored' /\ NamesComplete'
  BY DEF TypeOK, DiskInv, WholeStored, NamesComplete, Complete, Stored
<1> QED
  BY <1>1, <1>2, <1>3, <1>4 DEF DiskInv

LEMMA ReplaceWInv ==
  ASSUME WInv, NEW a \in Actors, Replace(a)
  PROVE  WInv'
<1> USE DEF WInv, Replace, Goto
<1>1. TypeOK'
  BY DEF TypeOK, Steps, Pointers, NoFile
<1>2. BuiltByOne'
  BY DEF TypeOK, DiskInv, BuiltByOne, Building
<1>3. StagedMatches' /\ MovedMatches' /\ PlanStored'
  BY DEF TypeOK, DiskInv, StagedMatches, MovedMatches, PlanStored, Described, Stored
<1>4. WholeStored' /\ NamesComplete'
  BY DEF TypeOK, DiskInv, WholeStored, NamesComplete, Complete, Stored, NoFile
<1> QED
  BY <1>1, <1>2, <1>3, <1>4 DEF DiskInv

LEMMA BeginRollbackWInv ==
  ASSUME WInv, NEW a \in Actors, NEW v \in Versions, BeginRollback(a, v)
  PROVE  WInv'
<1> USE DEF WInv, BeginRollback, Goto
<1>1. TypeOK'
  BY PublisherAssumption DEF TypeOK, Steps, Publishing, PublisherAssumption
<1>2. BuiltByOne'
  BY DEF TypeOK, DiskInv, BuiltByOne, Building
<1>3. StagedMatches' /\ MovedMatches' /\ PlanStored'
  BY DEF TypeOK, DiskInv, StagedMatches, MovedMatches, PlanStored, Described, Stored
<1>4. WholeStored' /\ NamesComplete'
  BY DEF TypeOK, DiskInv, WholeStored, NamesComplete, Complete, Stored
<1> QED
  BY <1>1, <1>2, <1>3, <1>4 DEF DiskInv

----------------------------------------------------------------------------
(* What a failing or dying actor leaves on the disk: nothing new, a torn   *)
(* manifest of a version only it builds, or a torn current.json.tmp.       *)
LEMMA TornKeeps ==
  ASSUME WInv, NEW a \in Actors, UNCHANGED disk \/ TearManifest(a) \/ TearTmp(a)
  PROVE  /\ UNCHANGED <<staging, files, moved, manifests, pointer>>
         /\ written' \in [Versions -> {"no", "torn", "whole"}] /\ tmp' \in Pointers
         /\ \A v \in Versions : written'[v] = "whole" <=> written[v] = "whole"
         /\ tmp'.state = "whole" => tmp' = tmp
<1> USE DEF WInv
<1>1. CASE UNCHANGED disk
  BY <1>1 DEF TypeOK
<1>2. CASE TearManifest(a)
  <2>1. version[a] \in Versions /\ written[version[a]] # "whole"
    BY <1>2 DEF TearManifest, DiskInv, BuiltByOne, Building
  <2> QED
    BY <1>2, <2>1 DEF TearManifest, TypeOK
<1>3. CASE TearTmp(a)
  BY <1>3 DEF TearTmp, TypeOK, Torn, NoFile, Pointers
<1> QED
  BY <1>1, <1>2, <1>3

LEMMA FailWInv ==
  ASSUME WInv, NEW a \in Actors, IOFails(a) \/ Crash(a)
  PROVE  WInv'
<1> USE DEF WInv
<1>1. /\ UNCHANGED <<staging, files, moved, manifests, pointer, rollbacks>>
      /\ written' \in [Versions -> {"no", "torn", "whole"}] /\ tmp' \in Pointers
      /\ \A v \in Versions : written'[v] = "whole" <=> written[v] = "whole"
      /\ tmp'.state = "whole" => tmp' = tmp
  BY TornKeeps DEF IOFails, Crash
<1>2. /\ \A b \in Actors \ {a} : /\ pc'[b] = pc[b] /\ version'[b] = version[b]
                                  /\ parts'[b] = parts[b] /\ plan'[b] = plan[b]
      /\ pc'[a] \in {"idle", "raised"}
      /\ version'[a] \in {version[a], NoVersion}
  BY DEF TypeOK, IOFails, Crash
<1>3. TypeOK'
  <2>1. CASE IOFails(a)
    BY <1>1, <2>1 DEF TypeOK, Steps, IOFails
  <2>2. CASE Crash(a)
    BY <1>1, <2>2, EmptyIsFiles DEF TypeOK, Steps, Crash
  <2> QED
    BY <2>1, <2>2
<1>4. BuiltByOne'
  BY <1>1, <1>2, PublisherAssumption DEF PublisherAssumption, DiskInv, BuiltByOne, Building
<1>5. StagedMatches' /\ MovedMatches' /\ PlanStored'
  BY <1>1, <1>2 DEF DiskInv, StagedMatches, MovedMatches, PlanStored, Described, Stored
<1>6. WholeStored' /\ NamesComplete'
  BY <1>1, <1>2 DEF DiskInv, WholeStored, NamesComplete, Complete, Stored
<1> QED
  BY <1>3, <1>4, <1>5, <1>6 DEF DiskInv

----------------------------------------------------------------------------
LEMMA NextWInv == WInv /\ [Next]_vars => WInv'
<1> SUFFICES ASSUME WInv, [Next]_vars PROVE WInv'
  OBVIOUS
<1>1. ASSUME NEW a \in Actors, NEW v \in Versions, BeginBatch(a, v) \/ BeginRollback(a, v)
      PROVE  WInv'
  BY <1>1, BeginBatchWInv, BeginRollbackWInv
<1>2. ASSUME NEW a \in Actors, NEW p \in Paths, NEW d \in Digests, Stage(a, p, d)
      PROVE  WInv'
  BY <1>2, StageWInv
<1>3. ASSUME NEW a \in Actors, Abandon(a) \/ Return(a) \/ IOFails(a) \/ Crash(a)
      PROVE  WInv'
  BY <1>3, AbandonWInv, ReturnWInv, FailWInv
<1>4. ASSUME NEW a \in Actors, PublishStep(a)
      PROVE  WInv'
  BY <1>4, FlushBatchWInv, VerifyWInv, MoveWInv, MergeWInv, WriteManifestWInv,
    ReadGenerationWInv, WriteTmpWInv, ReplaceWInv DEF PublishStep
<1>5. CASE UNCHANGED vars
  BY <1>5 DEF WInv, TypeOK, DiskInv, BuiltByOne, StagedMatches, MovedMatches,
    PlanStored, WholeStored, NamesComplete, Described, Complete, Stored
<1> QED
  BY <1>1, <1>2, <1>3, <1>4, <1>5 DEF Next

LEMMA Invariant == Spec => []WInv
BY InitWInv, NextWInv, PTL DEF Spec

(* Type correctness of the publisher and of the disk it works on.          *)
THEOREM TypeCorrect == Spec => []TypeOK
<1>1. WInv => TypeOK
  BY DEF WInv
<1> QED
  BY <1>1, Invariant, PTL

(* Any number of publishers and rollbacks, each of which may crash or fail *)
(* at any file operation: what current.json names is readable in full.     *)
THEOREM CurrentStaysReadable == Spec => []CurrentIsReadable
<1>1. WInv => CurrentIsReadable
  BY DEF WInv, DiskInv, NamesComplete, WholeStored, Complete, CurrentIsReadable, Readable
<1> QED
  BY <1>1, Invariant, PTL

(* What a reader has pinned never changes: published files and whole       *)
(* manifests stay as they are, whatever publishers and rollbacks do.       *)
THEOREM PublishedStays == Spec => PublishedIsImmutable
<1> DEFINE Kept ==
      \A v \in Versions :
        /\ v \in moved => v \in moved' /\ files'[v] = files[v]
        /\ written[v] = "whole" =>
             written'[v] = "whole" /\ manifests'[v] = manifests[v]
<1>1. WInv /\ [Next]_vars => [Kept]_vars
  <2> SUFFICES ASSUME WInv, [Next]_vars PROVE Kept
    OBVIOUS
  <2> USE DEF WInv, TypeOK
  <2>1. CASE UNCHANGED <<files, moved, manifests, written>>
    BY <2>1
  <2>2. ASSUME NEW a \in Actors, Move(a)
        PROVE  Kept
    <3>1. version[a] \notin moved
      BY <2>2 DEF Move, Goto, DiskInv, StagedMatches
    <3> QED
      BY <2>2, <3>1 DEF Move
  <2>3. ASSUME NEW a \in Actors, WriteManifest(a)
        PROVE  Kept
    <3>1. written[version[a]] # "whole"
      BY <2>3 DEF WriteManifest, Goto, DiskInv, BuiltByOne, Building
    <3> QED
      BY <2>3, <3>1 DEF WriteManifest
  <2>4. ASSUME NEW a \in Actors, IOFails(a) \/ Crash(a)
        PROVE  Kept
    BY <2>4, TornKeeps DEF IOFails, Crash
  <2> QED
    BY <2>1, <2>2, <2>3, <2>4 DEF Next, PublishStep, BeginBatch, BeginRollback, Stage,
      Abandon, Return, FlushBatch, Verify, Merge, ReadGeneration, WriteTmp, Replace
<1> QED
  BY <1>1, Invariant, PTL DEF Spec, PublishedIsImmutable

----------------------------------------------------------------------------
(* What holds when one process publishes at a time: several publishers     *)
(* share current.json.tmp and compute the same generation.                 *)
Alone == \A a, b \in Actors : a = b

(* The pointer parses, is generation 0 while it is absent, and is replaced *)
(* by what its only writer wrote to current.json.tmp.                      *)
PointerInv ==
  /\ pointer.state # "torn"
  /\ pointer.state = "absent" => pointer = NoFile
  /\ \A a \in Actors :
       /\ pc[a] \in {"tmp", "replace"} => generation[a] = NextGeneration
       /\ pc[a] = "replace" =>
            tmp = [state |-> "whole", version |-> version[a], gen |-> generation[a]]

(* The steps that neither replace the pointer nor lead up to it.           *)
LEMMA PointerKept ==
  ASSUME PointerInv, pointer' = pointer, NEW a \in Actors, Alone,
         pc'[a] \notin {"tmp", "replace"}
  PROVE  PointerInv'
BY DEF PointerInv, Alone

LEMMA InitPointerInv == Init => PointerInv
BY DEF Init, PointerInv, NoFile

LEMMA NextPointerInv ==
  ASSUME Alone
  PROVE  WInv /\ PointerInv /\ [Next]_vars => PointerInv'
<1> SUFFICES ASSUME WInv, PointerInv, [Next]_vars PROVE PointerInv'
  OBVIOUS
<1> USE Alone DEF WInv, TypeOK
<1>1. ASSUME NEW a \in Actors, NEW v \in Versions, BeginBatch(a, v) \/ BeginRollback(a, v)
      PROVE  PointerInv'
  BY <1>1, PointerKept DEF BeginBatch, BeginRollback, Goto
<1>2. ASSUME NEW a \in Actors, NEW p \in Paths, NEW d \in Digests, Stage(a, p, d)
      PROVE  PointerInv'
  BY <1>2, PointerKept DEF Stage
<1>3. ASSUME NEW a \in Actors, Abandon(a) \/ Return(a)
      PROVE  PointerInv'
  BY <1>3, PointerKept DEF Abandon, Return, Goto
<1>4. ASSUME NEW a \in Actors, IOFails(a) \/ Crash(a)
      PROVE  PointerInv'
  <2>1. pointer' = pointer
    BY <1>4, TornKeeps DEF IOFails, Crash
  <2>2. pc'[a] \notin {"tmp", "replace"}
    BY <1>4 DEF IOFails, Crash
  <2> QED
    BY <2>1, <2>2, PointerKept
<1>5. ASSUME NEW a \in Actors, FlushBatch(a) \/ Verify(a) \/ Move(a) \/ Merge(a) \/ WriteManifest(a)
      PROVE  PointerInv'
  BY <1>5, PointerKept DEF FlushBatch, Verify, Move, Merge, WriteManifest, Goto
<1>6. ASSUME NEW a \in Actors, ReadGeneration(a)
      PROVE  PointerInv'
  BY <1>6 DEF ReadGeneration, Goto, PointerInv, Alone, NextGeneration
<1>7. ASSUME NEW a \in Actors, WriteTmp(a)
      PROVE  PointerInv'
  BY <1>7 DEF WriteTmp, Goto, PointerInv, Alone, NextGeneration
<1>8. ASSUME NEW a \in Actors, Replace(a)
      PROVE  PointerInv'
  BY <1>8 DEF Replace, Goto, PointerInv, Alone
<1>9. CASE UNCHANGED vars
  BY <1>9 DEF PointerInv, NextGeneration
<1> QED
  BY <1>1, <1>2, <1>3, <1>4, <1>5, <1>6, <1>7, <1>8, <1>9 DEF Next, PublishStep

(* A publisher or a rollback that no other one interleaves with may crash  *)
(* at any operation, and current.json parses all the same.                 *)
THEOREM CurrentAlwaysParses == ASSUME Alone PROVE Spec => []CurrentParses
<1>1. PointerInv => CurrentParses
  BY DEF PointerInv, CurrentParses
<1>2. WInv /\ PointerInv /\ [Next]_vars => PointerInv'
  BY NextPointerInv
<1> QED
  BY <1>1, <1>2, Invariant, InitPointerInv, PTL DEF Spec

(* Only os.replace changes current.json, and it takes the next generation. *)
LEMMA PointerStep ==
  ASSUME Alone, WInv, PointerInv, [Next]_vars, pointer' # pointer
  PROVE  \E a \in Actors :
           /\ Replace(a) /\ pc[a] = "replace" /\ pc' = [pc EXCEPT ![a] = "returned"]
           /\ pointer' = [state |-> "whole", version |-> version[a],
                          gen |-> pointer.gen + 1]
<1>1. PICK a \in Actors : Replace(a)
  BY TornKeeps DEF Next, PublishStep, BeginBatch, BeginRollback, Stage, Abandon, Return,
    FlushBatch, Verify, Move, Merge, WriteManifest, ReadGeneration, WriteTmp, IOFails, Crash
<1>2. pc[a] = "replace" /\ tmp.state # "absent"
  BY <1>1 DEF Replace, Goto
<1>3. /\ tmp = [state |-> "whole", version |-> version[a], gen |-> generation[a]]
      /\ generation[a] = NextGeneration
  BY <1>2 DEF PointerInv
<1>4. NextGeneration = pointer.gen + 1
  BY DEF NextGeneration, PointerInv, NoFile, WInv, TypeOK, Pointers
<1> QED
  BY <1>1, <1>2, <1>3, <1>4 DEF Replace, Goto

(* Publications and rollbacks of one process at a time number the versions *)
(* that were current without a gap or a repetition.                        *)
THEOREM GenerationsAdvance == ASSUME Alone PROVE Spec => GenerationAdvances
<1>1. WInv /\ PointerInv /\ [Next]_vars =>
        [pointer' # pointer => pointer'.gen = pointer.gen + 1]_vars
  BY PointerStep
<1>2. WInv /\ PointerInv /\ [Next]_vars => PointerInv'
  BY NextPointerInv
<1> QED
  BY <1>1, <1>2, Invariant, InitPointerInv, PTL DEF Spec, GenerationAdvances

----------------------------------------------------------------------------
(* The refinement of WarehouseCatalog.  While one process publishes, what  *)
(* it merged stays the catalog of the readers with its entries over it,    *)
(* and only a rollback reaches the pointer without any entries.            *)
PlanFollows ==
  \A a \in Actors :
    /\ pc[a] = "idle" => parts[a] = {}
    /\ pc[a] \in {"verify", "move", "merge", "manifest"} => parts[a] # {}
    /\ pc[a] = "manifest" => plan[a] = Over(NewEntries(a), Current)
    /\ pc[a] \in {"generation", "tmp", "replace"} /\ parts[a] # {} =>
         manifests[version[a]] = Over(NewEntries(a), Current)

LEMMA NewEntriesKept ==
  ASSUME NEW a \in Actors, UNCHANGED <<parts, version>>
  PROVE  NewEntries(a)' = NewEntries(a)
BY DEF NewEntries, RecordedDigest

(* The steps after which the publisher has no merged entries in hand.      *)
LEMMA PlanDropped ==
  ASSUME Alone, NEW a \in Actors,
         pc'[a] \in {"idle", "batch", "verify", "move", "merge", "returned", "raised"},
         pc'[a] = "idle" => parts'[a] = {},
         pc'[a] \in {"verify", "move", "merge"} => parts'[a] # {}
  PROVE  PlanFollows'
BY DEF PlanFollows, Alone

(* The steps between the manifest and the pointer.                         *)
LEMMA PlanCarried ==
  ASSUME Alone, PlanFollows, NEW a \in Actors,
         UNCHANGED <<pointer, manifests, parts, version>>,
         pc[a] \in {"generation", "tmp", "replace"},
         pc'[a] \in {"generation", "tmp", "replace"}
  PROVE  PlanFollows'
<1>1. NewEntries(a)' = NewEntries(a) /\ Current' = Current
  BY NewEntriesKept DEF Current
<1> QED
  BY <1>1 DEF PlanFollows, Alone

LEMMA InitPlanFollows == Init => PlanFollows
BY DEF Init, PlanFollows

LEMMA NextPlanFollows ==
  ASSUME Alone
  PROVE  WInv /\ PointerInv /\ PlanFollows /\ [Next]_vars => PlanFollows'
<1> SUFFICES ASSUME WInv, PointerInv, PlanFollows, [Next]_vars PROVE PlanFollows'
  OBVIOUS
<1> USE Alone DEF WInv, TypeOK
<1>1. ASSUME NEW a \in Actors, NEW v \in Versions, BeginBatch(a, v)
      PROVE  PlanFollows'
  BY <1>1, PlanDropped DEF BeginBatch, Goto
<1>2. ASSUME NEW a \in Actors, NEW v \in Versions, BeginRollback(a, v)
      PROVE  PlanFollows'
  <2>1. pc'[a] = "generation" /\ parts'[a] = {}
    BY <1>2 DEF BeginRollback, Goto, PlanFollows
  <2> QED
    BY <2>1 DEF PlanFollows, Alone
<1>3. ASSUME NEW a \in Actors, NEW p \in Paths, NEW d \in Digests, Stage(a, p, d)
      PROVE  PlanFollows'
  BY <1>3, PlanDropped DEF Stage
<1>4. ASSUME NEW a \in Actors,
             Abandon(a) \/ Return(a) \/ Crash(a) \/ IOFails(a)
      PROVE  PlanFollows'
  BY <1>4, PlanDropped DEF Abandon, Return, Crash, IOFails, Goto
<1>5. ASSUME NEW a \in Actors, FlushBatch(a) \/ Verify(a) \/ Move(a)
      PROVE  PlanFollows'
  BY <1>5, PlanDropped DEF FlushBatch, Verify, Move, Goto, PlanFollows
<1>6. ASSUME NEW a \in Actors, Merge(a)
      PROVE  PlanFollows'
  <2>1. CASE Refused
    BY <1>6, <2>1, PlanDropped DEF Merge, Goto
  <2>2. CASE ~Refused
    <3>1. Current = Predecessor
      BY <2>2 DEF Current, Predecessor, Refused, PointerInv, Pointers
    <3>2. NewEntries(a)' = NewEntries(a) /\ Current' = Current
      BY <1>6, NewEntriesKept DEF Merge, Current
    <3>3. /\ pc[a] = "merge" /\ pc'[a] = "manifest" /\ parts'[a] = parts[a]
          /\ plan'[a] = Over(NewEntries(a), Predecessor)
      BY <1>6, <2>2 DEF Merge, Goto
    <3> QED
      BY <3>1, <3>2, <3>3 DEF PlanFollows, Alone
  <2> QED
    BY <2>1, <2>2
<1>7. ASSUME NEW a \in Actors, WriteManifest(a)
      PROVE  PlanFollows'
  <2>1. version[a] \in Versions /\ written[version[a]] # "whole"
    BY <1>7 DEF WriteManifest, Goto, DiskInv, BuiltByOne, Building
  <2>2. Current' = Current
    BY <1>7, <2>1 DEF WriteManifest, Current, DiskInv, NamesComplete, Complete
  <2>3. NewEntries(a)' = NewEntries(a)
    BY <1>7, NewEntriesKept DEF WriteManifest
  <2>4. /\ pc[a] = "manifest" /\ pc'[a] = "generation"
        /\ manifests'[version'[a]] = plan[a]
    BY <1>7, <2>1 DEF WriteManifest, Goto
  <2> QED
    BY <2>2, <2>3, <2>4 DEF PlanFollows, Alone
<1>8. ASSUME NEW a \in Actors, ReadGeneration(a) \/ WriteTmp(a)
      PROVE  PlanFollows'
  BY <1>8, PlanCarried DEF ReadGeneration, WriteTmp, Goto
<1>9. ASSUME NEW a \in Actors, Replace(a)
      PROVE  PlanFollows'
  BY <1>9, PlanDropped DEF Replace, Goto
<1>10. CASE UNCHANGED vars
  <2>1. \A a \in Actors : NewEntries(a)' = NewEntries(a)
    BY <1>10, NewEntriesKept
  <2>2. Current' = Current
    BY <1>10 DEF Current
  <2> QED
    BY <1>10, <2>1, <2>2 DEF PlanFollows
<1> QED
  BY <1>1, <1>2, <1>3, <1>4, <1>5, <1>6, <1>7, <1>8, <1>9, <1>10 DEF Next, PublishStep

SoloInv == WInv /\ PointerInv /\ PlanFollows

(* What the refinement gives for the candidates and the rollback flag.     *)
Candidates == {manifests[v] : v \in {u \in Versions : written[u] = "whole"}}
Restoring == \E a \in Actors : RollingBack(a)

(* Until a manifest or the pointer is written readers see no change: what  *)
(* is left of a step is a rollback that begins or is given up.             *)
LEMMA Unseen ==
  ASSUME UNCHANGED <<pointer, manifests>>,
         \A v \in Versions : written'[v] = "whole" <=> written[v] = "whole"
  PROVE  [Catalog!Next]_<<Current, Candidates, Restoring>>
<1>1. Current' = Current
  BY DEF Current
<1>2. Candidates' = Candidates
  <2>1. {u \in Versions : written'[u] = "whole"} = {u \in Versions : written[u] = "whole"}
    OBVIOUS
  <2> QED
    BY <2>1 DEF Candidates
<1>3. Restoring' = Restoring \/ Restoring' = ~Restoring
  BY DEF Restoring
<1> QED
  BY <1>1, <1>2, <1>3 DEF Catalog!Next, Catalog!AskRestore, Candidates, Restoring

(* The entries of a batch that staged something are an addition.           *)
LEMMA NewEntriesAdd ==
  ASSUME WInv, NEW a \in Actors, version[a] \in Versions, parts[a] # {}
  PROVE  NewEntries(a) \in Catalog!Additions
<1>1. /\ NewEntries(a) \in Files(Entries)
      /\ DOMAIN NewEntries(a) = {m.path : m \in parts[a]}
  BY NewEntriesTyped DEF WInv, TypeOK
<1>2. /\ NewEntries(a) \in [DOMAIN NewEntries(a) -> Entries]
      /\ DOMAIN NewEntries(a) \in (SUBSET Paths) \ {{}}
  BY <1>1, FilesDef
<1> QED
  BY <1>2 DEF Catalog!Additions, Catalog!Entries, Entries

(* A whole manifest is one more version that a rollback may choose.        *)
LEMMA WriteManifestShows ==
  ASSUME Alone, SoloInv, NEW a \in Actors, WriteManifest(a)
  PROVE  Catalog!Next
<1> USE DEF SoloInv, WInv, TypeOK
<1>1. /\ version[a] \in Versions /\ written[version[a]] # "whole"
      /\ pc[a] = "manifest" /\ pc'[a] = "generation" /\ parts' = parts /\ parts[a] # {}
      /\ plan[a] = Over(NewEntries(a), Current)
  BY DEF WriteManifest, Goto, DiskInv, BuiltByOne, Building, PlanFollows
<1>2. Current' = Current
  BY <1>1 DEF WriteManifest, Current, DiskInv, NamesComplete, Complete
<1>3. Candidates' = Candidates \cup {plan[a]}
  <2>1. {u \in Versions : written'[u] = "whole"}
          = {u \in Versions : written[u] = "whole"} \cup {version[a]}
    BY <1>1 DEF WriteManifest
  <2>2. /\ manifests'[version[a]] = plan[a]
        /\ \A u \in Versions : written[u] = "whole" => manifests'[u] = manifests[u]
    BY <1>1 DEF WriteManifest
  <2> QED
    BY <2>1, <2>2 DEF Candidates
<1>4. ~Restoring /\ ~Restoring'
  BY <1>1 DEF Restoring, RollingBack, Alone
<1>5. Catalog!Over(NewEntries(a), Current) = plan[a]
  BY <1>1 DEF Catalog!Over, Over
<1>6. PICK new \in Catalog!Additions : new = NewEntries(a)
  BY <1>1, NewEntriesAdd
<1>7. Catalog!Prepare(new)
  BY <1>1, <1>2, <1>3, <1>4, <1>5, <1>6 DEF Catalog!Prepare, Candidates, Restoring
<1> QED
  BY <1>6, <1>7 DEF Catalog!Next

(* With the pointer a publication appends and a rollback restores.         *)
LEMMA ReplaceShows ==
  ASSUME Alone, SoloInv, NEW a \in Actors, Replace(a)
  PROVE  Catalog!Next
<1> USE DEF SoloInv, WInv, TypeOK
<1>1. /\ pc[a] = "replace" /\ Complete(version[a])
      /\ tmp = [state |-> "whole", version |-> version[a], gen |-> generation[a]]
  BY DEF Replace, Goto, PointerInv, DiskInv, NamesComplete
<1>2. /\ pointer' = tmp /\ pc'[a] = "returned"
      /\ UNCHANGED <<manifests, written, parts>>
  BY <1>1 DEF Replace, Goto
<1>3. Current' = manifests[version[a]] /\ Candidates' = Candidates
  BY <1>1, <1>2 DEF Current, Candidates
<1>4. ~Restoring' /\ (Restoring <=> parts[a] = {})
  BY <1>1, <1>2 DEF Restoring, RollingBack, Alone
<1>5. CASE parts[a] # {}
  <2>1. NewEntries(a) \in Catalog!Additions
    BY <1>1, <1>5, NewEntriesAdd DEF Complete
  <2>2. Current' = Catalog!Over(NewEntries(a), Current)
    BY <1>1, <1>3, <1>5 DEF PlanFollows, Catalog!Over, Over
  <2>3. Catalog!Append(NewEntries(a))
    BY <1>3, <1>4, <1>5, <2>2 DEF Catalog!Append, Candidates, Restoring
  <2> QED
    BY <2>1, <2>3 DEF Catalog!Next
<1>6. CASE parts[a] = {}
  <2>1. Current' \in Candidates
    BY <1>1, <1>3 DEF Candidates, Complete
  <2>2. Catalog!Restore
    BY <1>3, <1>4, <1>6, <2>1 DEF Catalog!Restore, Candidates, Restoring
  <2> QED
    BY <2>2 DEF Catalog!Next
<1> QED
  BY <1>5, <1>6

LEMMA StepRefines ==
  ASSUME Alone
  PROVE  SoloInv /\ [Next]_vars => [Catalog!Next]_<<Current, Candidates, Restoring>>
<1> SUFFICES ASSUME SoloInv, [Next]_vars
             PROVE  [Catalog!Next]_<<Current, Candidates, Restoring>>
  OBVIOUS
<1>1. ASSUME NEW a \in Actors, WriteManifest(a)
      PROVE  Catalog!Next
  BY <1>1, WriteManifestShows, Alone
<1>2. ASSUME NEW a \in Actors, Replace(a)
      PROVE  Catalog!Next
  BY <1>2, ReplaceShows, Alone
<1>3. ASSUME NEW a \in Actors, IOFails(a) \/ Crash(a)
      PROVE  [Catalog!Next]_<<Current, Candidates, Restoring>>
  BY <1>3, TornKeeps, Unseen DEF SoloInv, IOFails, Crash
<1>4. CASE UNCHANGED <<pointer, manifests, written>>
  BY <1>4, Unseen
<1> QED
  BY <1>1, <1>2, <1>3, <1>4 DEF Next, PublishStep, BeginBatch, BeginRollback, Stage,
    Abandon, Return, FlushBatch, Verify, Move, Merge, ReadGeneration, WriteTmp

LEMMA InitRefines == Init => Catalog!Init
<1> SUFFICES ASSUME Init PROVE Catalog!Init
  OBVIOUS
<1>1. Current = [p \in {} |-> {}]
  BY DEF Init, Current, NoFile, Empty
<1>2. Candidates = {}
  BY DEF Init, Candidates
<1>3. ~Restoring
  BY DEF Init, Restoring, RollingBack
<1> QED
  BY <1>1, <1>2, <1>3 DEF Catalog!Init, Candidates, Restoring

(* One process at a time that may crash or fail at any file operation      *)
(* implements the catalog: a publication adds its entries to what readers  *)
(* see, at once and in full, or not at all, and a rollback brings back a   *)
(* version that was completed earlier.                                     *)
THEOREM CatalogImplemented == ASSUME Alone PROVE Spec => ImplementsCatalog
<1>1. Init => SoloInv
  BY InitWInv, InitPointerInv, InitPlanFollows DEF SoloInv
<1>2. SoloInv /\ [Next]_vars => SoloInv'
  BY NextWInv, NextPointerInv, NextPlanFollows, Alone DEF SoloInv
<1>3. SoloInv /\ [Next]_vars => [Catalog!Next]_<<Current, Candidates, Restoring>>
  BY StepRefines
<1> QED
  BY <1>1, <1>2, <1>3, InitRefines, PTL
  DEF Spec, ImplementsCatalog, Catalog!Spec, Candidates, Restoring
=============================================================================
