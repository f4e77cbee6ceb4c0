------------------------------ MODULE CasSnapshot ------------------------------
(****************************************************************************)
(* `rux-ml data version`: snapshot() of data/versioning.py.  A run lists    *)
(* the source files, digests their bytes and, in a second pass, their rows; *)
(* then it digests every file a third time, links it under that digest into *)
(* the content-addressed store (copies it when the store is on another      *)
(* device) and publishes a manifest.  Meanwhile the source may be rewritten *)
(* in place, replaced or removed, other snapshots may run, and a snapshot   *)
(* may die between any two steps.                                           *)
(*                                                                          *)
(* A digest is represented by the content it was taken of: xxh3 and sha256  *)
(* are assumed free of collisions.  A file is read in one step; a copy is   *)
(* not written in one.                                                      *)
(****************************************************************************)
EXTENDS Integers, FiniteSets

CONSTANTS
  Runs,          \* snapshot commands that may be alive at a time
  Sources,       \* paths under source_path, numbered in sorting order
  NameOf,        \* base name of each path: partitions share them
  Contents,      \* bytes a parquet file may hold
  RowsOf,        \* the rows in those bytes: layouts share them
  Inodes,        \* files, under whatever paths they are linked
  NoFile, Partial,
  MaxSnapshots, MaxChanges, MaxCrashes

ASSUME InodesAssumption == Inodes \subseteq Nat /\ Sources \subseteq Inodes
ASSUME MarksAssumption == NoFile \notin Inodes /\ Partial \notin Contents
ASSUME BoundsAssumption ==
  MaxSnapshots \in Nat /\ MaxChanges \in Nat /\ MaxCrashes \in Nat

Keys == Contents \X {NameOf[s] : s \in Sources}

VARIABLES
  source,        \* source path -> inode
  cas,           \* store path -> inode
  bytes,         \* inode -> what it holds
  tmp,           \* the <version_id>.json.tmp files of one data set
  manifests,     \* its <version_id>.json files
  op,            \* what each run knows
  sameDevice,    \* os.link works from source to store
  happened,      \* history: the disturbances there have been
  started, changes, crashes

vars == <<source, cas, bytes, tmp, manifests, op, sameDevice, happened,
          started, changes, crashes>>
files == <<source, cas, bytes>>
records == <<tmp, manifests>>
counters == <<started, changes, crashes>>

Disturbances ==
  {"rewrite",    \* a source file was rewritten in place
   "race",       \* the source changed while a snapshot was at work
   "torn",       \* a run died with a copy half written
   "company"}    \* two snapshots were at work at a time

Blank == [pc |-> "idle", listed |-> {}, scanned |-> {}, digest |-> <<>>,
          rows |-> <<>>, got |-> <<>>,    \* source path -> store path
          at |-> NoFile, dest |-> NoFile, from |-> NoFile]

\* f, and v for s.
Noted(f, s, v) == [x \in DOMAIN f \cup {s} |-> IF x = s THEN v ELSE f[x]]

Resting == {"idle", "done", "failed"}
Active(r) == op[r].pc \notin Resting
Busy == \E r \in Runs : Active(r)

Present == {s \in Sources : source[s] # NoFile}
IsFirst(s, S) == \A t \in S : s <= t

\* sorted(digests): how often each digest occurs, not where.
Tally(f) == [c \in {f[s] : s \in DOMAIN f} |->
               Cardinality({s \in DOMAIN f : f[s] = c})]

\* sha256 of "bytes_hash|logical_hash", and what goes under that name.
ManifestOf(o) == [version |-> <<Tally(o.digest), Tally(o.rows)>>,
                  files |-> o.got]

Linked == {source[s] : s \in Sources} \cup {cas[k] : k \in Keys}
Unused == Inodes \ (Linked \cup {op[r].from : r \in Runs})
IsFresh(i) == i \in Unused /\ IsFirst(i, Unused)

Init ==
  /\ source = [s \in Sources |-> s]
  /\ cas = [k \in Keys |-> NoFile]
  /\ \E first \in [Sources -> Contents] :
       bytes = [i \in Inodes |-> IF i \in Sources THEN first[i] ELSE Partial]
  /\ tmp = {} /\ manifests = {}
  /\ op = [r \in Runs |-> Blank]
  /\ sameDevice \in BOOLEAN
  /\ happened = {}
  /\ started = 0 /\ changes = 0 /\ crashes = 0
-----------------------------------------------------------------------------
(* A snapshot. *)

\* Run r goes on to pc with o, which may be "failed": an exception.
Step(r, o, pc) == op' = [op EXCEPT ![r] = [o EXCEPT !.pc = pc]]

\* The first listing, snapshot()'s own.
Start(r) ==
  /\ ~Active(r)
  /\ started < MaxSnapshots
  /\ started' = started + 1
  /\ Step(r, [Blank EXCEPT !.listed = Present], "list")
  /\ happened' = happened \cup (IF Busy THEN {"company"} ELSE {})
  /\ UNCHANGED <<files, records, sameDevice, changes, crashes>>

\* compute_data_hash lists for itself; without files the row hash raises.
List(r) ==
  /\ op[r].pc = "list"
  /\ Step(r, [op[r] EXCEPT !.scanned = Present],
          IF Present = {} THEN "failed" ELSE "digest")
  /\ UNCHANGED <<files, records, sameDevice, happened, counters>>

\* One file of a pass over `scanned`; a file that is gone raises.
DigestFile(r) ==
  LET todo == op[r].scanned \ DOMAIN op[r].digest
  IN  /\ op[r].pc = "digest"
      /\ \E s \in todo :
           /\ IsFirst(s, todo)
           /\ IF source[s] = NoFile THEN Step(r, op[r], "failed")
              ELSE Step(r, [op[r] EXCEPT
                              !.digest = Noted(@, s, bytes[source[s]])],
                        IF todo = {s} THEN "rows" ELSE "digest")
      /\ UNCHANGED <<files, records, sameDevice, happened, counters>>

\* Mutant of ReadRows: the first file stands for the data set.
ReadRows_First(r) ==
  /\ op[r].pc = "rows"
  /\ \E s \in op[r].scanned :
       /\ IsFirst(s, op[r].scanned)
       /\ source[s] # NoFile
       /\ Step(r, [op[r] EXCEPT !.rows = Noted(<<>>, s, RowsOf[bytes[source[s]]])],
               IF op[r].listed = {} THEN "record" ELSE "store")
  /\ UNCHANGED <<files, records, sameDevice, happened, counters>>

ReadRows(r) ==
  LET todo == op[r].scanned \ DOMAIN op[r].rows
      next == IF op[r].listed = {} THEN "record" ELSE "store"
  IN  /\ op[r].pc = "rows"
      /\ \E s \in todo :
           /\ IsFirst(s, todo)
           /\ IF source[s] = NoFile THEN Step(r, op[r], "failed")
              ELSE Step(r, [op[r] EXCEPT
                              !.rows = Noted(@, s, RowsOf[bytes[source[s]]])],
                        IF todo = {s} THEN next ELSE "rows")
      /\ UNCHANGED <<files, records, sameDevice, happened, counters>>

\* cas_files.append(dest), and on to the next file.
Stored(r) ==
  LET o == op[r]
  IN  Step(r, [o EXCEPT !.got = Noted(@, o.at, o.dest),
                        !.at = NoFile, !.dest = NoFile, !.from = NoFile],
           IF o.listed \ DOMAIN o.got = {o.at} THEN "record" ELSE "store")

\* xxh3_64_file again, for the name in the store.
NameFile(r) ==
  LET todo == op[r].listed \ DOMAIN op[r].got
  IN  /\ op[r].pc = "store"
      /\ \E s \in todo :
           /\ IsFirst(s, todo)
           /\ IF source[s] = NoFile THEN Step(r, op[r], "failed")
              ELSE Step(r, [op[r] EXCEPT
                              !.at = s,
                              !.dest = <<bytes[source[s]], NameOf[s]>>],
                        "check")
      /\ UNCHANGED <<files, records, sameDevice, happened, counters>>

\* Mutant of CheckStored: nobody looks.
CheckStored_Never(r) ==
  /\ op[r].pc = "check"
  /\ Step(r, op[r], "link")
  /\ UNCHANGED <<files, records, sameDevice, happened, counters>>

\* dst.exists(): whatever is there is taken for the file.
CheckStored(r) ==
  /\ op[r].pc = "check"
  /\ IF cas[op[r].dest] # NoFile THEN Stored(r) ELSE Step(r, op[r], "link")
  /\ UNCHANGED <<files, records, sameDevice, happened, counters>>

\* Mutants of Link: any OSError of os.link is taken for success; what lies in
\* the store is linked over.
Link_Tolerant(r) ==
  LET s == op[r].at
      k == op[r].dest
      impossible == source[s] = NoFile \/ cas[k] # NoFile
  IN  /\ op[r].pc = "link"
      /\ \/ impossible /\ Stored(r) /\ UNCHANGED cas
         \/ ~impossible /\ sameDevice /\ cas' = [cas EXCEPT ![k] = source[s]] /\ Stored(r)
         \/ ~impossible /\ ~sameDevice /\ Step(r, op[r], "copy") /\ UNCHANGED cas
      /\ UNCHANGED <<source, bytes, records, sameDevice, happened, counters>>

Link_Over(r) ==
  /\ op[r].pc = "link"
  /\ source[op[r].at] # NoFile
  /\ IF sameDevice
     THEN cas' = [cas EXCEPT ![op[r].dest] = source[op[r].at]] /\ Stored(r)
     ELSE Step(r, op[r], "copy") /\ UNCHANGED cas
  /\ UNCHANGED <<source, bytes, records, sameDevice, happened, counters>>

\* os.link: ENOENT and EEXIST are raised again, EXDEV leads to a copy.
Link(r) ==
  LET s == op[r].at
      k == op[r].dest
      impossible == source[s] = NoFile \/ cas[k] # NoFile
  IN  /\ op[r].pc = "link"
      /\ \/ impossible /\ Step(r, op[r], "failed") /\ UNCHANGED cas
         \/ /\ ~impossible /\ sameDevice
            /\ cas' = [cas EXCEPT ![k] = source[s]]
            /\ Stored(r)
         \/ ~impossible /\ ~sameDevice /\ Step(r, op[r], "copy") /\ UNCHANGED cas
      /\ UNCHANGED <<source, bytes, records, sameDevice, happened, counters>>

\* copy2 opens the source, then creates or empties the destination.
OpenCopy(r) ==
  LET s == op[r].at
      k == op[r].dest
  IN  /\ op[r].pc = "copy"
      /\ IF source[s] = NoFile
         THEN Step(r, op[r], "failed") /\ UNCHANGED <<cas, bytes>>
         ELSE \E i \in Inodes :
                /\ IF cas[k] = NoFile THEN IsFresh(i) ELSE i = cas[k]
                /\ cas' = [cas EXCEPT ![k] = i]
                /\ bytes' = [bytes EXCEPT ![i] = Partial]
                /\ Step(r, [op[r] EXCEPT !.from = source[s]], "fill")
      /\ UNCHANGED <<source, records, sameDevice, happened, counters>>

FillCopy(r) ==
  /\ op[r].pc = "fill"
  /\ bytes' = [bytes EXCEPT ![cas[op[r].dest]] = bytes[op[r].from]]
  /\ Stored(r)
  /\ UNCHANGED <<source, cas, records, sameDevice, happened, counters>>

\* write_manifest: the temporary file, over an older one of that version.
WriteTmp(r) ==
  LET m == ManifestOf(op[r])
  IN  /\ op[r].pc = "record"
      /\ tmp' = {t \in tmp : t.version # m.version} \cup {m}
      /\ Step(r, op[r], "publish")
      /\ UNCHANGED <<files, manifests, sameDevice, happened, counters>>

\* tmp.replace(final) moves what lies there, whoever wrote it.
Publish(r) ==
  LET mine == {t \in tmp : t.version = ManifestOf(op[r]).version}
  IN  /\ op[r].pc = "publish"
      /\ IF mine = {} THEN Step(r, op[r], "failed") /\ UNCHANGED manifests
         ELSE /\ manifests' = mine \cup {m \in manifests : \A t \in mine :
                                           m.version # t.version}
              /\ Step(r, op[r], "done")
      /\ tmp' = tmp \ mine
      /\ UNCHANGED <<files, sameDevice, happened, counters>>

Snapshot(r) ==
  \/ Start(r) \/ List(r) \/ DigestFile(r) \/ ReadRows(r) \/ NameFile(r)
  \/ CheckStored(r) \/ Link(r) \/ OpenCopy(r) \/ FillCopy(r)
  \/ WriteTmp(r) \/ Publish(r)

\* The process is gone; what it made stays.
Crash(r) ==
  /\ Active(r) /\ crashes < MaxCrashes
  /\ crashes' = crashes + 1
  /\ op' = [op EXCEPT ![r] = Blank]
  /\ happened' = happened \cup (IF op[r].pc = "fill" THEN {"torn"} ELSE {})
  /\ UNCHANGED <<files, records, sameDevice, started, changes>>
-----------------------------------------------------------------------------
(* The owners of the source. *)

Changed(kinds) ==
  /\ changes < MaxChanges
  /\ changes' = changes + 1
  /\ happened' = happened \cup kinds \cup (IF Busy THEN {"race"} ELSE {})
  /\ UNCHANGED <<records, op, sameDevice, started, crashes>>

RewriteInPlace(s, c) ==
  /\ source[s] # NoFile
  /\ bytes[source[s]] # c
  /\ bytes' = [bytes EXCEPT ![source[s]] = c]
  /\ Changed({"rewrite"})
  /\ UNCHANGED <<source, cas>>

\* A new file is moved over the path, or appears there.
ReplaceSource(s, c) ==
  /\ \E i \in Inodes : /\ IsFresh(i)
                       /\ source' = [source EXCEPT ![s] = i]
                       /\ bytes' = [bytes EXCEPT ![i] = c]
  /\ Changed({})
  /\ UNCHANGED cas

RemoveSource(s) ==
  /\ source[s] # NoFile
  /\ source' = [source EXCEPT ![s] = NoFile]
  /\ Changed({})
  /\ UNCHANGED <<cas, bytes>>

Next ==
  \/ \E r \in Runs : Snapshot(r) \/ Crash(r)
  \/ \E s \in Sources : \/ RemoveSource(s)
                        \/ \E c \in Contents : \/ RewriteInPlace(s, c)
                                               \/ ReplaceSource(s, c)

Spec == Init /\ [][Next]_vars
-----------------------------------------------------------------------------
(* Properties *)

\* A manifest is published last: whatever dies, fails or races, every file
\* that a manifest lists is in the store (it need not be right).
ManifestIsReadable ==
  \A m \in manifests : \A s \in DOMAIN m.files : cas[m.files[s]] # NoFile

\* What spoils the store: a source that changes between the digest and the
\* link; a file rewritten in place while the store shares it; a copy that is
\* left half written, which every later run takes for whole.
Undisturbed ==
  /\ "race" \notin happened
  /\ sameDevice => "rewrite" \notin happened
  /\ ~sameDevice => happened \cap {"torn", "company"} = {}

\* Without these a manifest is true: the files it lists hold the bytes and
\* the rows its version id stands for, however often runs die.
ManifestIsTrue ==
  Undisturbed =>
    \A m \in manifests :
      LET held == [s \in DOMAIN m.files |-> bytes[cas[m.files[s]]]]
      IN  /\ \A s \in DOMAIN held : held[s] \in Contents
          /\ m.version = <<Tally(held),
                           Tally([s \in DOMAIN held |-> RowsOf[held[s]]])>>

\* Once a file is in the store whole, it never changes again and its path
\* never leads elsewhere, whatever is crashed, removed or moved over: only a
\* rewrite of a shared file and a copy in company can do that.
StoreIsStable ==
  [][(IF sameDevice THEN "rewrite" \notin happened'
                    ELSE "company" \notin happened') =>
       \A k \in Keys : cas[k] # NoFile /\ bytes[cas[k]] \in Contents =>
         cas'[k] = cas[k] /\ bytes'[cas[k]] = bytes[cas[k]]]_vars

\* A snapshot does not fail without a cause: it found nothing, or its source
\* moved, or another run was at work.  What dead runs left never hinders it.
FailsForACause ==
  \A r \in Runs : op[r].pc = "failed" =>
    op[r].scanned = {} \/ happened \cap {"race", "company"} # {}
=============================================================================
