------------------------- MODULE WarehousePublisher -------------------------
(***************************************************************************)
(* Publication of warehouse versions on disk:                              *)
(* backend/app/warehouse/publisher.py.  An actor stages partition files,   *)
(* moves them under warehouse/versions, merges their entries with those of *)
(* the current manifest, writes a new manifest and replaces current.json.  *)
(* One action is one operation on the file system: other actors, and a     *)
(* crash, can come between any two.  A write that a crash cuts short       *)
(* leaves a torn file behind.                                              *)
(***************************************************************************)
EXTENDS Integers

CONSTANTS
  Actors,         \* processes that publish or roll back
  Versions,       \* warehouse version names, each made unique by a uuid
  Paths,          \* relative paths of partition files
  Digests,        \* contents of a partition file, as its SHA-256
  MaxRollbacks,   \* bound: how many rollbacks a behaviour has
  NoVersion       \* not a version

ASSUME PublisherAssumption ==
  NoVersion \notin Versions /\ MaxRollbacks \in Nat

VARIABLES
  staging,        \* staging/<version>: path -> digest
  files,          \* warehouse/versions/<version>: path -> digest
  moved,          \* versions whose directory is under warehouse/versions
  manifests,      \* path -> [digest, source] of the manifest of a version
  written,        \* "no", "torn" or "whole": the manifest file of a version
  pointer,        \* current.json
  tmp,            \* current.json.tmp
  pc,             \* where an actor is in begin_batch ... publish_version
  version,        \* the version an actor publishes
  parts,          \* metadata of the partitions it staged
  plan,           \* the merged entries of its manifest
  generation,     \* the pointer generation it computed
  rollbacks       \* rollbacks so far

disk == <<staging, files, moved, manifests, written, pointer, tmp>>
memory == <<pc, version, parts, plan, generation>>
vars == <<disk, memory, rollbacks>>

----------------------------------------------------------------------------
Files(S) == UNION {[P -> S] : P \in SUBSET Paths}
Empty == [p \in {} |-> NoVersion]

\* The entries of `new` with those of `old` it does not supersede.
Over(new, old) ==
  [p \in DOMAIN new \cup DOMAIN old |-> IF p \in DOMAIN new THEN new[p] ELSE old[p]]

Entries == [digest : Digests, source : Versions]
Parts == [path : Paths, digest : Digests]
Pointers == [state : {"absent", "torn", "whole"},
             version : Versions \cup {NoVersion}, gen : Nat]
NoFile == [state |-> "absent", version |-> NoVersion, gen |-> 0]
Torn == [NoFile EXCEPT !.state = "torn"]

Publishing == {"verify", "move", "merge", "manifest", "generation", "tmp", "replace"}
Steps == {"idle", "batch", "returned", "raised"} \cup Publishing

Init ==
  /\ staging = [v \in Versions |-> Empty]
  /\ files = [v \in Versions |-> Empty]
  /\ moved = {}
  /\ manifests = [v \in Versions |-> Empty]
  /\ written = [v \in Versions |-> "no"]
  /\ pointer = NoFile /\ tmp = NoFile
  /\ pc = [a \in Actors |-> "idle"]
  /\ version = [a \in Actors |-> NoVersion]
  /\ parts = [a \in Actors |-> {}]
  /\ plan = [a \in Actors |-> Empty]
  /\ generation = [a \in Actors |-> 0]
  /\ rollbacks = 0

Goto(a, from, to) == pc[a] = from /\ pc' = [pc EXCEPT ![a] = to]

----------------------------------------------------------------------------
(* begin_batch: subsequent publishes are collected under one version.  Its *)
(* name is new.  One under which nothing was ever moved and that no actor  *)
(* has in hand stands for a new one: what lies in its staging directory is *)
(* only ever read under that name.                                         *)
Fresh_TimeStamp(v) == v \notin moved  \* mutant: two actors may share a name

Fresh(v) == v \notin moved /\ \A b \in Actors : version[b] # v

BeginBatch(a, v) ==
  /\ Goto(a, "idle", "batch")
  /\ Fresh(v)
  /\ version' = [version EXCEPT ![a] = v]
  /\ parts' = [parts EXCEPT ![a] = {}]
  /\ staging' = [staging EXCEPT ![v] = Empty]
  /\ UNCHANGED <<files, moved, manifests, written, pointer, tmp,
                 plan, generation, rollbacks>>

(* stage_partition, and the batched branch of publish_version: write the   *)
(* file, whatever is there already, and keep its metadata.                 *)
Stage(a, p, d) ==
  /\ pc[a] = "batch"
  /\ staging' = [staging EXCEPT ![version[a]] = Over([q \in {p} |-> d], @)]
  /\ parts' = [parts EXCEPT ![a] = @ \cup {[path |-> p, digest |-> d]}]
  /\ UNCHANGED <<files, moved, manifests, written, pointer, tmp,
                 pc, version, plan, generation, rollbacks>>

(* abandon_batch, and flush_batch when nothing was staged.                 *)
Abandon(a) ==
  /\ Goto(a, "batch", "idle")
  /\ version' = [version EXCEPT ![a] = NoVersion]
  /\ parts' = [parts EXCEPT ![a] = {}]
  /\ UNCHANGED <<disk, plan, generation, rollbacks>>

(* flush_batch closes the batch and publishes what it collected.           *)
FlushBatch(a) ==
  /\ Goto(a, "batch", IF parts[a] = {} THEN "returned" ELSE "verify")
  /\ UNCHANGED <<disk, version, parts, plan, generation, rollbacks>>

(* publish_version: digests of the staged files, and no such version yet.  *)
Verified_NoDigests(a) ==   \* mutant: the staged bytes are not hashed again
  /\ \A m \in parts[a] : m.path \in DOMAIN staging[version[a]]
  /\ version[a] \notin moved

Verified(a) ==
  /\ \A m \in parts[a] : /\ m.path \in DOMAIN staging[version[a]]
                         /\ staging[version[a]][m.path] = m.digest
  /\ version[a] \notin moved

Verify(a) ==
  /\ Goto(a, "verify", IF Verified(a) THEN "move" ELSE "raised")
  /\ UNCHANGED <<disk, version, parts, plan, generation, rollbacks>>

Move(a) ==
  LET v == version[a]
  IN  /\ Goto(a, "move", "merge")
      /\ files' = [files EXCEPT ![v] = staging[v]]
      /\ moved' = moved \cup {v}
      /\ staging' = [staging EXCEPT ![v] = Empty]
      /\ UNCHANGED <<manifests, written, pointer, tmp,
                     version, parts, plan, generation, rollbacks>>

(* _merge_with_current: the entries of the current manifest, those of the  *)
(* new partitions winning on a path; refused when it cannot be read.  All  *)
(* callers ask for it, although publish_version's default is not to merge. *)
RecordedDigest(a, p) == (CHOOSE m \in parts[a] : m.path = p).digest

NewEntries_NoSource(a) ==  \* mutant: the entry does not say where its file is
  [p \in {m.path : m \in parts[a]} |->
     [digest |-> RecordedDigest(a, p), source |-> NoVersion]]

NewEntries(a) ==
  [p \in {m.path : m \in parts[a]} |->
     [digest |-> RecordedDigest(a, p), source |-> version[a]]]

Predecessor_None == Empty  \* mutant: each publish supersedes the last

Predecessor ==
  IF pointer.state = "absent" THEN Empty ELSE manifests[pointer.version]

Refused == \/ pointer.state = "torn"
           \/ pointer.state = "whole" /\ written[pointer.version] # "whole"

Merge(a) ==
  /\ IF Refused
     THEN Goto(a, "merge", "raised") /\ UNCHANGED plan
     ELSE /\ Goto(a, "merge", "manifest")
          /\ plan' = [plan EXCEPT ![a] = Over(NewEntries(a), Predecessor)]
  /\ UNCHANGED <<disk, version, parts, generation, rollbacks>>

WriteManifest(a) ==
  /\ Goto(a, "manifest", "generation")
  /\ manifests' = [manifests EXCEPT ![version[a]] = plan[a]]
  /\ written' = [written EXCEPT ![version[a]] = "whole"]
  /\ UNCHANGED <<staging, files, moved, pointer, tmp,
                 version, parts, plan, generation, rollbacks>>

NextGeneration_Same ==  \* mutant: the generation is carried over
  IF pointer.state = "whole" THEN pointer.gen ELSE 1

NextGeneration == IF pointer.state = "whole" THEN pointer.gen + 1 ELSE 1

ReadGeneration(a) ==
  /\ Goto(a, "generation", "tmp")
  /\ generation' = [generation EXCEPT ![a] = NextGeneration]
  /\ UNCHANGED <<disk, version, parts, plan, rollbacks>>

(* One current.json.tmp for all actors.                                    *)
WriteTmp(a) ==
  /\ Goto(a, "tmp", "replace")
  /\ tmp' = [state |-> "whole", version |-> version[a], gen |-> generation[a]]
  /\ UNCHANGED <<staging, files, moved, manifests, written, pointer,
                 version, parts, plan, generation, rollbacks>>

(* os.replace: atomic; the file may be gone when another actor moved it.   *)
Replace(a) ==
  /\ IF tmp.state = "absent"
     THEN Goto(a, "replace", "raised") /\ UNCHANGED <<pointer, tmp>>
     ELSE /\ Goto(a, "replace", "returned")
          /\ pointer' = tmp
          /\ tmp' = NoFile
  /\ UNCHANGED <<staging, files, moved, manifests, written,
                 version, parts, plan, generation, rollbacks>>

(* rollback_to: the target's manifest must parse and its directory exist;  *)
(* from there on it writes the pointer as publish_version does.            *)
BeginRollback(a, v) ==
  /\ rollbacks < MaxRollbacks
  /\ written[v] = "whole" /\ v \in moved
  /\ Goto(a, "idle", "generation")
  /\ version' = [version EXCEPT ![a] = v]
  /\ rollbacks' = rollbacks + 1
  /\ UNCHANGED <<disk, parts, plan, generation>>

----------------------------------------------------------------------------
(* The caller has the result and drops the batch.                          *)
Return(a) ==
  /\ pc[a] \in {"returned", "raised"}
  /\ pc' = [pc EXCEPT ![a] = "idle"]
  /\ version' = [version EXCEPT ![a] = NoVersion]
  /\ parts' = [parts EXCEPT ![a] = {}]
  /\ plan' = [plan EXCEPT ![a] = Empty]
  /\ generation' = [generation EXCEPT ![a] = 0]
  /\ UNCHANGED <<disk, rollbacks>>

(* A write cut short by a crash or a full disk.                            *)
TearManifest(a) ==
  /\ pc[a] = "manifest"
  /\ written' = [written EXCEPT ![version[a]] = "torn"]
  /\ UNCHANGED <<staging, files, moved, manifests, pointer, tmp>>

TearTmp_InPlace(a) ==  \* mutant: current.json is written without a temporary
  /\ pc[a] = "tmp"
  /\ pointer' = Torn
  /\ UNCHANGED <<staging, files, moved, manifests, written, tmp>>

TearTmp(a) ==
  /\ pc[a] = "tmp"
  /\ tmp' = Torn
  /\ UNCHANGED <<staging, files, moved, manifests, written, pointer>>

(* OSError from any of the operations: publish_version raises.             *)
IOFails(a) ==
  /\ pc[a] \in Publishing
  /\ UNCHANGED disk \/ TearManifest(a) \/ TearTmp(a)
  /\ pc' = [pc EXCEPT ![a] = "raised"]
  /\ UNCHANGED <<version, parts, plan, generation, rollbacks>>

(* The process dies: its memory is gone, the disk stays as it is.          *)
Crash(a) ==
  /\ pc[a] # "idle"
  /\ UNCHANGED disk \/ TearManifest(a) \/ TearTmp(a)
  /\ pc' = [pc EXCEPT ![a] = "idle"]
  /\ version' = [version EXCEPT ![a] = NoVersion]
  /\ parts' = [parts EXCEPT ![a] = {}]
  /\ plan' = [plan EXCEPT ![a] = Empty]
  /\ generation' = [generation EXCEPT ![a] = 0]
  /\ UNCHANGED rollbacks

PublishStep(a) ==
  \/ FlushBatch(a) \/ Verify(a) \/ Move(a) \/ Merge(a) \/ WriteManifest(a)
  \/ ReadGeneration(a) \/ WriteTmp(a) \/ Replace(a)

Next ==
  \E a \in Actors :
    \/ \E v \in Versions : BeginBatch(a, v) \/ BeginRollback(a, v)
    \/ \E p \in Paths, d \in Digests : Stage(a, p, d)
    \/ Abandon(a)
    \/ PublishStep(a)
    \/ Return(a)
    \/ IOFails(a)
    \/ Crash(a)

Spec == Init /\ [][Next]_vars

----------------------------------------------------------------------------
(* Every variable stays in its type: a manifest names a source version for *)
(* each entry, and no actor leaves the steps of begin_batch ...            *)
(* publish_version.                                                        *)
TypeOK ==
  /\ staging \in [Versions -> Files(Digests)]
  /\ files \in [Versions -> Files(Digests)]
  /\ moved \in SUBSET Versions
  /\ manifests \in [Versions -> Files(Entries)]
  /\ written \in [Versions -> {"no", "torn", "whole"}]
  /\ pointer \in Pointers /\ tmp \in Pointers
  /\ pc \in [Actors -> Steps]
  /\ version \in [Actors -> Versions \cup {NoVersion}]
  /\ parts \in [Actors -> SUBSET Parts]
  /\ plan \in [Actors -> Files(Entries)]
  /\ generation \in [Actors -> Nat]
  /\ rollbacks \in 0 .. MaxRollbacks

(* Every entry of a map names a file that is where the reader looks for it *)
(* (reader.py: versions/<source_version>/<path>), with the recorded bytes. *)
Stored(entries) ==
  \A p \in DOMAIN entries :
    /\ entries[p].source \in moved
    /\ p \in DOMAIN files[entries[p].source]
    /\ files[entries[p].source][p] = entries[p].digest

Readable(v) == v \in Versions /\ written[v] = "whole" /\ Stored(manifests[v])

(* Whatever actors interleave and wherever one crashes: when current.json  *)
(* parses, the manifest it names parses too and every partition that       *)
(* manifest lists is on disk with its digest.                              *)
CurrentIsReadable == pointer.state = "whole" => Readable(pointer.version)

(* Published versions and whole manifests never change: what a reader has  *)
(* pinned stays valid for as long as it reads.                             *)
PublishedIsImmutable ==
  [][\A v \in Versions :
       /\ v \in moved => v \in moved' /\ files'[v] = files[v]
       /\ written[v] = "whole" =>
            written'[v] = "whole" /\ manifests'[v] = manifests[v]]_vars

----------------------------------------------------------------------------
(* What holds when one process publishes at a time.                        *)

(* The warehouse as its readers see it.                                    *)
Current == IF pointer.state = "whole" THEN manifests[pointer.version] ELSE Empty

\* An actor whose next replace is a rollback: it has staged nothing.
RollingBack(a) ==
  pc[a] \in {"generation", "tmp", "replace"} /\ parts[a] = {}

Catalog ==
  INSTANCE WarehouseCatalog
    WITH catalog <- Current,
         candidates <- {manifests[v] : v \in {u \in Versions : written[u] = "whole"}},
         restoring <- \E a \in Actors : RollingBack(a)

(* Publishing appends to what readers see and a rollback restores a        *)
(* manifest written earlier; nothing else that happens on disk shows.      *)
ImplementsCatalog == Catalog!Spec

(* current.json always parses: a crash tears the temporary file only.      *)
CurrentParses == pointer.state # "torn"

(* Every replacement of the pointer takes the next generation, rollbacks   *)
(* included, so that no generation names two versions.                     *)
GenerationAdvances ==
  [][pointer' # pointer => pointer'.gen = pointer.gen + 1]_vars
=============================================================================
