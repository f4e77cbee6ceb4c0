--------------------------- MODULE CasSnapshotProofs ---------------------------
(***************************************************************************)
(* Theorems about CasSnapshot, for any sources, contents, runs and any     *)
(* number of snapshots, changes and crashes.                               *)
(*                                                                         *)
(* What protects the store is who may share a file with whom.  On one      *)
(* device a file is only ever linked, whole, under a name that was free.   *)
(* On two, no stored file is a source or is stored twice; and a run that   *)
(* is alone goes on finding free the name it found free (IInv).            *)
(*                                                                         *)
(* What makes a manifest true is that nothing moves between the three      *)
(* readings of a file, and that the store holds what its names say         *)
(* (TruthOK, in the second half of the module).                            *)
(***************************************************************************)
EXTENDS CasSnapshot, TLAPS

Pcs == {"idle", "done", "failed", "list", "digest", "rows", "store", "check",
        "link", "copy", "fill", "record", "publish"}

\* What a run knows of some of the sources.
Partials(V) == UNION {[S -> V] : S \in SUBSET Sources}

Ops == [pc : Pcs, listed : SUBSET Sources, scanned : SUBSET Sources,
        digest : Partials(Contents), rows : Partials({RowsOf[x] : x \in Contents}),
        got : Partials(Keys), at : Sources \cup {NoFile}, dest : Keys \cup {NoFile},
        from : Inodes \cup {NoFile}]

TypeOK ==
  /\ source \in [Sources -> Inodes \cup {NoFile}]
  /\ cas \in [Keys -> Inodes \cup {NoFile}]
  /\ bytes \in [Inodes -> Contents \cup {Partial}]
  /\ op \in [Runs -> Ops]
  /\ sameDevice \in BOOLEAN
  /\ happened \in SUBSET Disturbances

\* A source is never half a file.
SourcesOK ==
  \A s \in Sources : source[s] # NoFile => bytes[source[s]] \in Contents

\* Files shared on one device are whole; on two devices nothing is shared.
DevicesOK ==
  /\ sameDevice => \A k \in Keys : cas[k] # NoFile => bytes[cas[k]] \in Contents
  /\ ~sameDevice => \A k \in Keys : cas[k] # NoFile =>
                      /\ \A s \in Sources : source[s] # cas[k]
                      /\ \A l \in Keys : l # k => cas[l] # cas[k]

\* A run between its check and its list knows the file it is at.
AtOK ==
  \A r \in Runs :
    /\ op[r].pc \in {"check", "link", "copy", "fill"} =>
         op[r].at \in Sources /\ op[r].dest \in Keys
    /\ op[r].pc \in {"copy", "fill"} => ~sameDevice
    /\ op[r].pc = "fill" => op[r].from \in Inodes /\ cas[op[r].dest] # NoFile

\* A run that is alone copies to a name that was free.
AloneOK ==
  "company" \notin happened =>
    /\ \A r, q \in Runs : Active(r) /\ Active(q) => r = q
    /\ \A r \in Runs :
         /\ op[r].pc \in {"link", "copy"} => cas[op[r].dest] = NoFile
         /\ op[r].pc = "fill" => bytes[cas[op[r].dest]] = Partial

\* The files listed so far and those of a manifest are in the store.
Listed(f) == \A s \in DOMAIN f : f[s] \in Keys /\ cas[f[s]] # NoFile
ListedOK ==
  /\ \A r \in Runs : Listed(op[r].got)
  /\ \A m \in tmp \cup manifests : Listed(m.files)

IInv == TypeOK /\ SourcesOK /\ DevicesOK /\ AtOK /\ AloneOK /\ ListedOK

-----------------------------------------------------------------------------
(* Records and functions *)

\* Knowing nothing is knowing something of no source.
LEMMA NothingIsPartial == ASSUME NEW V PROVE <<>> \in Partials(V)
<1>1. <<>> \in [{} -> V]
  OBVIOUS
<1> QED BY <1>1 DEF Partials

\* One more source is known.
LEMMA PartialGrows ==
  ASSUME NEW V, NEW f \in Partials(V), NEW s \in Sources, NEW v \in V
  PROVE  /\ Noted(f, s, v) \in Partials(V)
         /\ \A x \in DOMAIN Noted(f, s, v) :
              \/ Noted(f, s, v)[x] = v
              \/ x \in DOMAIN f /\ Noted(f, s, v)[x] = f[x]
<1>1. PICK S \in SUBSET Sources : f \in [S -> V]
  BY DEF Partials
<1>2. Noted(f, s, v) \in [S \cup {s} -> V]
  BY <1>1 DEF Noted
<1>3. S \cup {s} \in SUBSET Sources
  OBVIOUS
<1>4. Noted(f, s, v) \in Partials(V)
  BY <1>2, <1>3 DEF Partials
<1>5. ASSUME NEW x \in DOMAIN Noted(f, s, v)
      PROVE  \/ Noted(f, s, v)[x] = v
             \/ x \in DOMAIN f /\ Noted(f, s, v)[x] = f[x]
  BY DEF Noted
<1> QED BY <1>4, <1>5

-----------------------------------------------------------------------------
(* Files *)

\* An empty store shares nothing.
LEMMA InitHolds == Init => IInv
<1> SUFFICES ASSUME Init PROVE IInv
  OBVIOUS
<1>1. Blank \in Ops
  BY NothingIsPartial DEF Blank, Ops, Pcs
<1>2. PICK first \in [Sources -> Contents] :
        bytes = [i \in Inodes |-> IF i \in Sources THEN first[i] ELSE Partial]
  BY DEF Init
<1>3. TypeOK
  BY <1>1, <1>2, InodesAssumption DEF Init, TypeOK, Disturbances
<1>4. SourcesOK /\ DevicesOK
  BY <1>2, InodesAssumption DEF Init, SourcesOK, DevicesOK
<1>5. \A r \in Runs : op[r] = Blank
  BY DEF Init
<1>6. AtOK /\ AloneOK /\ ListedOK
  BY <1>5 DEF Init, AtOK, AloneOK, ListedOK, Listed, Blank, Active, Resting
<1> QED BY <1>3, <1>4, <1>6 DEF IInv

\* A run's own step gives it a record of the kind, and no other run one.
LEMMA StepIsTyped ==
  ASSUME TypeOK, NEW r \in Runs, NEW o \in Ops, NEW pc \in Pcs, Step(r, o, pc)
  PROVE  /\ op' \in [Runs -> Ops]
         /\ op'[r] = [o EXCEPT !.pc = pc]
         /\ op'[r] \in Ops
         /\ \A q \in Runs \ {r} : op'[q] = op[q]
<1>1. [o EXCEPT !.pc = pc] \in Ops
  BY DEF Ops
<1> QED BY <1>1 DEF TypeOK, Step

\* cas_files.append: the store path of the file the run is at joins the others.
LEMMA StoredIsTyped ==
  ASSUME TypeOK, NEW r \in Runs, op[r].at \in Sources, op[r].dest \in Keys, Stored(r)
  PROVE  /\ op' \in [Runs -> Ops]
         /\ \A q \in Runs \ {r} : op'[q] = op[q]
         /\ op'[r].pc \in {"record", "store"}
         /\ \A x \in DOMAIN op'[r].got :
              \/ op'[r].got[x] = op[r].dest
              \/ x \in DOMAIN op[r].got /\ op'[r].got[x] = op[r].got[x]
<1> DEFINE o == op[r]
           g == Noted(o.got, o.at, o.dest)
           n == [o EXCEPT !.got = g, !.at = NoFile, !.dest = NoFile, !.from = NoFile]
<1>1. o \in Ops
  BY DEF TypeOK
<1>2. o.got \in Partials(Keys)
  BY <1>1 DEF Ops
<1>3. /\ g \in Partials(Keys)
      /\ \A x \in DOMAIN g : \/ g[x] = o.dest
                             \/ x \in DOMAIN o.got /\ g[x] = o.got[x]
  BY <1>2, PartialGrows
<1>4. n \in Ops /\ n.got = g
  BY <1>1, <1>3 DEF Ops
<1>5. PICK pc \in {"record", "store"} : Step(r, n, pc)
  BY DEF Stored
<1>6. pc \in Pcs
  BY DEF Pcs
<1> HIDE DEF n, g
<1>7. /\ op' \in [Runs -> Ops]
      /\ op'[r] = [n EXCEPT !.pc = pc]
      /\ \A q \in Runs \ {r} : op'[q] = op[q]
  BY <1>4, <1>5, <1>6, StepIsTyped
<1>8. op'[r].pc = pc /\ op'[r].got = g
  BY <1>4, <1>7 DEF Ops
<1> QED BY <1>3, <1>7, <1>8

-----------------------------------------------------------------------------
(* Steps that leave the files alone *)

\* What a run has to keep to when it changes no file.
LEMMA QuietStep ==
  ASSUME IInv, NEW r \in Runs,
         op' \in [Runs -> Ops], \A q \in Runs \ {r} : op'[q] = op[q],
         UNCHANGED <<files, sameDevice>>,
         happened \subseteq happened', happened' \in SUBSET Disturbances,
         op'[r].pc \in {"check", "link"} =>
           op'[r].at \in Sources /\ op'[r].dest \in Keys,
         op'[r].pc \notin {"copy", "fill"},
         op'[r].pc = "link" => cas[op'[r].dest] = NoFile,
         Listed(op'[r].got),
         op'[r].pc \in Resting \/ Active(r) \/ ~Busy \/ "company" \in happened',
         \A m \in tmp' \cup manifests' : m \in tmp \cup manifests \/ m.files = op'[r].got
  PROVE  IInv'
<1> USE DEF IInv
<1>1. TypeOK'
  BY DEF TypeOK, files
<1>2. SourcesOK' /\ DevicesOK'
  BY DEF SourcesOK, DevicesOK, files
<1>3. AtOK'
  BY DEF AtOK, files
<1>4. ASSUME "company" \notin happened'
      PROVE  \A p, q \in Runs : Active(p)' /\ Active(q)' => p = q
  BY <1>4 DEF AloneOK, Active, Busy
<1>5. AloneOK'
  BY <1>4 DEF AloneOK, files
<1>6. ListedOK'
  BY DEF ListedOK, Listed, files
<1> QED BY <1>1, <1>2, <1>3, <1>5, <1>6

\* An idle run is a run.
LEMMA BlankIsTyped == Blank \in Ops /\ Listed(Blank.got)
  BY NothingIsPartial DEF Blank, Ops, Pcs, Listed

\* A run that works on a file it knows, and so is at work before and after.
LEMMA OwnStep ==
  ASSUME IInv, NEW r \in Runs, NEW o \in Ops, NEW pc \in Pcs \ {"copy", "fill"},
         Active(r), Step(r, o, pc), o.got = op[r].got,
         pc \in {"check", "link"} => o.at \in Sources /\ o.dest \in Keys,
         pc = "link" => cas[o.dest] = NoFile,
         UNCHANGED <<files, sameDevice, happened>>,
         \A m \in tmp' \cup manifests' : m \in tmp \cup manifests \/ m.files = op[r].got
  PROVE  IInv'
<1>1. /\ op' \in [Runs -> Ops]
      /\ op'[r] = [o EXCEPT !.pc = pc]
      /\ \A q \in Runs \ {r} : op'[q] = op[q]
  BY StepIsTyped DEF IInv
<1>2. /\ op'[r].pc = pc /\ op'[r].got = op[r].got
      /\ op'[r].at = o.at /\ op'[r].dest = o.dest
  BY <1>1 DEF Ops
<1>3. Listed(op'[r].got) /\ happened' \in SUBSET Disturbances
  BY <1>2 DEF IInv, ListedOK, TypeOK
<1> QED BY <1>1, <1>2, <1>3, QuietStep

\* A run that meets another at work is in company.
LEMMA StartStep == ASSUME IInv, NEW r \in Runs, Start(r) PROVE IInv'
<1>1. [Blank EXCEPT !.listed = Present] \in Ops /\ "list" \in Pcs
  BY BlankIsTyped DEF Ops, Pcs, Present
<1>2. /\ op' \in [Runs -> Ops]
      /\ op'[r] = [[Blank EXCEPT !.listed = Present] EXCEPT !.pc = "list"]
      /\ \A q \in Runs \ {r} : op'[q] = op[q]
  BY <1>1, StepIsTyped DEF Start, IInv
<1>3. op'[r].pc = "list" /\ Listed(op'[r].got)
  BY <1>2, BlankIsTyped DEF Blank
<1>4. /\ happened \subseteq happened' /\ happened' \in SUBSET Disturbances
      /\ Busy => "company" \in happened'
  BY DEF Start, IInv, TypeOK, Disturbances
<1>5. UNCHANGED <<files, records, sameDevice>>
  BY DEF Start
<1> QED BY <1>2, <1>3, <1>4, <1>5, QuietStep DEF records

\* Listing and digesting only add to what the run knows.
LEMMA ListStep == ASSUME IInv, NEW r \in Runs, List(r) PROVE IInv'
<1> DEFINE o == [op[r] EXCEPT !.scanned = Present]
           pc == IF Present = {} THEN "failed" ELSE "digest"
<1>1. op[r] \in Ops
  BY DEF IInv, TypeOK
<1>2. o \in Ops /\ o.got = op[r].got
  BY <1>1 DEF Ops, Present
<1>3. pc \in Pcs \ {"copy", "fill", "check", "link"} /\ Active(r)
  BY DEF Pcs, List, Active, Resting
<1>4. Step(r, o, pc) /\ UNCHANGED <<files, records, sameDevice, happened>>
  BY DEF List
<1> HIDE DEF o, pc
<1> QED BY <1>2, <1>3, <1>4, OwnStep DEF records

\* A digest is one of whole content: no source is half a file.
LEMMA DigestFileStep == ASSUME IInv, NEW r \in Runs, DigestFile(r) PROVE IInv'
<1> DEFINE todo == op[r].scanned \ DOMAIN op[r].digest
<1>1. op[r] \in Ops
  BY DEF IInv, TypeOK
<1>2. PICK s \in todo :
        IF source[s] = NoFile THEN Step(r, op[r], "failed")
        ELSE Step(r, [op[r] EXCEPT !.digest = Noted(@, s, bytes[source[s]])],
                  IF todo = {s} THEN "rows" ELSE "digest")
  BY DEF DigestFile
<1>3. s \in Sources
  BY <1>1 DEF Ops
<1>4. Active(r) /\ UNCHANGED <<files, records, sameDevice, happened>>
  BY DEF DigestFile, Active, Resting
<1>5. CASE source[s] = NoFile
  BY <1>1, <1>2, <1>4, <1>5, OwnStep DEF records, Pcs
<1>6. CASE source[s] # NoFile
  <2> DEFINE o == [op[r] EXCEPT !.digest = Noted(@, s, bytes[source[s]])]
             pc == IF todo = {s} THEN "rows" ELSE "digest"
  <2>1. bytes[source[s]] \in Contents
    BY <1>3, <1>6 DEF IInv, SourcesOK
  <2>2. Noted(op[r].digest, s, bytes[source[s]]) \in Partials(Contents)
    BY <1>1, <1>3, <2>1, PartialGrows DEF Ops
  <2>3. o \in Ops /\ o.got = op[r].got
    BY <1>1, <2>2 DEF Ops
  <2>4. pc \in Pcs \ {"copy", "fill", "check", "link"}
    BY DEF Pcs
  <2>5. Step(r, o, pc)
    BY <1>2, <1>6
  <2> HIDE DEF o, pc
  <2> QED BY <1>4, <2>3, <2>4, <2>5, OwnStep DEF records
<1> QED BY <1>5, <1>6

\* The second pass, over the rows.
LEMMA ReadRowsStep == ASSUME IInv, NEW r \in Runs, ReadRows(r) PROVE IInv'
<1> DEFINE todo == op[r].scanned \ DOMAIN op[r].rows
           next == IF op[r].listed = {} THEN "record" ELSE "store"
<1>1. op[r] \in Ops
  BY DEF IInv, TypeOK
<1>2. PICK s \in todo :
        IF source[s] = NoFile THEN Step(r, op[r], "failed")
        ELSE Step(r, [op[r] EXCEPT !.rows = Noted(@, s, RowsOf[bytes[source[s]]])],
                  IF todo = {s} THEN next ELSE "rows")
  BY DEF ReadRows
<1>3. s \in Sources
  BY <1>1 DEF Ops
<1>4. Active(r) /\ UNCHANGED <<files, records, sameDevice, happened>>
  BY DEF ReadRows, Active, Resting
<1>5. CASE source[s] = NoFile
  BY <1>1, <1>2, <1>4, <1>5, OwnStep DEF records, Pcs
<1>6. CASE source[s] # NoFile
  <2> DEFINE o == [op[r] EXCEPT !.rows = Noted(@, s, RowsOf[bytes[source[s]]])]
             pc == IF todo = {s} THEN next ELSE "rows"
  <2>1. RowsOf[bytes[source[s]]] \in {RowsOf[x] : x \in Contents}
    BY <1>3, <1>6 DEF IInv, SourcesOK
  <2>2. Noted(op[r].rows, s, RowsOf[bytes[source[s]]]) \in Partials({RowsOf[x] : x \in Contents})
    BY <1>1, <1>3, <2>1, PartialGrows DEF Ops
  <2>3. o \in Ops /\ o.got = op[r].got
    BY <1>1, <2>2 DEF Ops
  <2>4. pc \in Pcs \ {"copy", "fill", "check", "link"}
    BY DEF Pcs
  <2>5. Step(r, o, pc)
    BY <1>2, <1>6
  <2> HIDE DEF o, pc
  <2> QED BY <1>4, <2>3, <2>4, <2>5, OwnStep DEF records
<1> QED BY <1>5, <1>6

\* The name of a file in the store is taken from whole content.
LEMMA NameFileStep == ASSUME IInv, NEW r \in Runs, NameFile(r) PROVE IInv'
<1> DEFINE todo == op[r].listed \ DOMAIN op[r].got
<1>1. op[r] \in Ops
  BY DEF IInv, TypeOK
<1>2. PICK s \in todo :
        IF source[s] = NoFile THEN Step(r, op[r], "failed")
        ELSE Step(r, [op[r] EXCEPT !.at = s, !.dest = <<bytes[source[s]], NameOf[s]>>],
                  "check")
  BY DEF NameFile
<1>3. s \in Sources
  BY <1>1 DEF Ops
<1>4. Active(r) /\ UNCHANGED <<files, records, sameDevice, happened>>
  BY DEF NameFile, Active, Resting
<1>5. CASE source[s] = NoFile
  BY <1>1, <1>2, <1>4, <1>5, OwnStep DEF records, Pcs
<1>6. CASE source[s] # NoFile
  <2> DEFINE k == <<bytes[source[s]], NameOf[s]>>
             o == [op[r] EXCEPT !.at = s, !.dest = k]
  <2>1. k \in Keys
    BY <1>3, <1>6 DEF IInv, SourcesOK, Keys
  <2>2. o \in Ops /\ o.got = op[r].got /\ o.at = s /\ o.dest = k
    BY <1>1, <1>3, <2>1 DEF Ops
  <2>3. Step(r, o, "check") /\ "check" \in Pcs
    BY <1>2, <1>6 DEF Pcs
  <2> HIDE DEF o, k
  <2> QED BY <1>3, <1>4, <2>1, <2>2, <2>3, OwnStep DEF records
<1> QED BY <1>5, <1>6

\* A name found taken is listed, one found free is gone for.
LEMMA CheckStoredStep == ASSUME IInv, NEW r \in Runs, CheckStored(r) PROVE IInv'
<1>1. op[r] \in Ops /\ op[r].at \in Sources /\ op[r].dest \in Keys
  BY DEF IInv, TypeOK, AtOK, CheckStored
<1>2. Active(r) /\ UNCHANGED <<files, records, sameDevice, happened>>
  BY DEF CheckStored, Active, Resting
<1>3. CASE cas[op[r].dest] = NoFile
  <2>1. Step(r, op[r], "link") /\ "link" \in Pcs
    BY <1>3 DEF CheckStored, Pcs
  <2> QED BY <1>1, <1>2, <1>3, <2>1, OwnStep DEF records
<1>4. CASE cas[op[r].dest] # NoFile
  <2>1. Stored(r)
    BY <1>4 DEF CheckStored
  <2>2. /\ op' \in [Runs -> Ops]
        /\ \A q \in Runs \ {r} : op'[q] = op[q]
        /\ op'[r].pc \in {"record", "store"}
        /\ \A x \in DOMAIN op'[r].got :
             \/ op'[r].got[x] = op[r].dest
             \/ x \in DOMAIN op[r].got /\ op'[r].got[x] = op[r].got[x]
    BY <1>1, <2>1, StoredIsTyped DEF IInv
  <2>3. Listed(op'[r].got)
    BY <1>1, <1>4, <2>2 DEF IInv, ListedOK, Listed
  <2>4. happened' \in SUBSET Disturbances
    BY <1>2 DEF IInv, TypeOK
  <2> QED BY <1>2, <2>2, <2>3, <2>4, QuietStep DEF records
<1> QED BY <1>3, <1>4

\* A manifest lists what its run has stored.
LEMMA WriteTmpStep == ASSUME IInv, NEW r \in Runs, WriteTmp(r) PROVE IInv'
<1>1. op[r] \in Ops /\ Active(r) /\ "publish" \in Pcs
  BY DEF IInv, TypeOK, WriteTmp, Active, Resting, Pcs
<1>2. Step(r, op[r], "publish") /\ UNCHANGED <<files, manifests, sameDevice, happened>>
  BY DEF WriteTmp
<1>3. \A m \in tmp' : m \in tmp \/ m.files = op[r].got
  BY DEF WriteTmp, ManifestOf
<1> QED BY <1>1, <1>2, <1>3, OwnStep

\* Whoever wrote the temporary manifest, its files are in the store.
LEMMA PublishStep == ASSUME IInv, NEW r \in Runs, Publish(r) PROVE IInv'
<1>1. op[r] \in Ops /\ Active(r) /\ {"failed", "done"} \subseteq Pcs
  BY DEF IInv, TypeOK, Publish, Active, Resting, Pcs
<1>2. PICK pc \in {"failed", "done"} : Step(r, op[r], pc)
  BY DEF Publish
<1>3. UNCHANGED <<files, sameDevice, happened>>
  BY DEF Publish
<1>4. tmp' \cup manifests' \subseteq tmp \cup manifests
  BY DEF Publish
<1> QED BY <1>1, <1>2, <1>3, <1>4, OwnStep

\* A dead run is an idle one.
LEMMA CrashStep == ASSUME IInv, NEW r \in Runs, Crash(r) PROVE IInv'
<1>1. /\ op' \in [Runs -> Ops] /\ op'[r] = Blank
      /\ \A q \in Runs \ {r} : op'[q] = op[q]
  BY BlankIsTyped DEF Crash, IInv, TypeOK
<1>2. op'[r].pc = "idle" /\ Listed(op'[r].got)
  BY <1>1, BlankIsTyped DEF Blank
<1>3. happened \subseteq happened' /\ happened' \in SUBSET Disturbances
  BY DEF Crash, IInv, TypeOK, Disturbances
<1>4. UNCHANGED <<files, records, sameDevice>>
  BY DEF Crash
<1> QED BY <1>1, <1>2, <1>3, <1>4, QuietStep DEF records, Resting

-----------------------------------------------------------------------------
(* Steps that change files *)

\* The store only gains names: what was listed stays listed.
LEMMA ListedStays ==
  ASSUME IInv, NEW r \in Runs, \A q \in Runs \ {r} : op'[q] = op[q],
         \A k \in Keys : cas[k] # NoFile => cas'[k] # NoFile,
         UNCHANGED records,
         Listed(op[r].got)'
  PROVE  ListedOK'
  BY DEF IInv, ListedOK, Listed, records

\* A link gives a free name to a whole file.
LEMMA LinkStep == ASSUME IInv, NEW r \in Runs, Link(r) PROVE IInv'
<1> DEFINE s == op[r].at
           k == op[r].dest
<1>1. op[r] \in Ops /\ s \in Sources /\ k \in Keys
  BY DEF IInv, TypeOK, AtOK, Link
<1>2. Active(r) /\ UNCHANGED <<source, bytes, records, sameDevice, happened>>
  BY DEF Link, Active, Resting
<1>3. CASE Step(r, op[r], "failed") /\ UNCHANGED cas
  BY <1>1, <1>2, <1>3, OwnStep DEF records, files, Pcs
<1>4. CASE /\ source[s] # NoFile /\ cas[k] = NoFile /\ sameDevice
           /\ cas' = [cas EXCEPT ![k] = source[s]]
           /\ Stored(r)
  <2>1. /\ op' \in [Runs -> Ops]
        /\ \A q \in Runs \ {r} : op'[q] = op[q]
        /\ op'[r].pc \in {"record", "store"}
        /\ \A x \in DOMAIN op'[r].got :
             \/ op'[r].got[x] = k
             \/ x \in DOMAIN op[r].got /\ op'[r].got[x] = op[r].got[x]
    BY <1>1, <1>4, StoredIsTyped DEF IInv
  <2>2. /\ cas' \in [Keys -> Inodes \cup {NoFile}]
        /\ cas'[k] = source[s] /\ \A l \in Keys \ {k} : cas'[l] = cas[l]
    BY <1>1, <1>4 DEF IInv, TypeOK
  <2>3. TypeOK'
    BY <1>2, <2>1, <2>2 DEF IInv, TypeOK
  <2>4. SourcesOK' /\ DevicesOK'
    BY <1>1, <1>2, <1>4, <2>2 DEF IInv, SourcesOK, DevicesOK
  <2>5. AtOK'
    BY <1>2, <1>4, <2>1 DEF IInv, AtOK
  <2>6. AloneOK'
    BY <1>2, <1>4, <2>1 DEF IInv, AtOK, AloneOK, Active, Resting
  <2>7. Listed(op[r].got)'
    BY <1>1, <1>4, <2>1, <2>2 DEF IInv, ListedOK, Listed
  <2>8. ListedOK'
    BY <1>2, <1>4, <2>1, <2>2, <2>7, ListedStays
  <2> QED BY <2>3, <2>4, <2>5, <2>6, <2>8 DEF IInv
<1>5. CASE /\ source[s] # NoFile /\ cas[k] = NoFile /\ ~sameDevice
           /\ Step(r, op[r], "copy") /\ UNCHANGED cas
  <2>1. /\ op' \in [Runs -> Ops]
        /\ op'[r] = [op[r] EXCEPT !.pc = "copy"]
        /\ \A q \in Runs \ {r} : op'[q] = op[q]
    BY <1>1, <1>5, StepIsTyped DEF IInv, Pcs
  <2>2. op'[r].pc = "copy" /\ op'[r].at = s /\ op'[r].dest = k /\ op'[r].got = op[r].got
    BY <1>1, <2>1 DEF Ops
  <2>3. TypeOK' /\ SourcesOK' /\ DevicesOK'
    <3>1. TypeOK'
      BY <1>2, <1>5, <2>1 DEF IInv, TypeOK
    <3>2. SourcesOK'
      BY <1>2, <1>5 DEF IInv, SourcesOK
    <3>3. DevicesOK'
      BY <1>2, <1>5 DEF IInv, DevicesOK
    <3> QED BY <3>1, <3>2, <3>3
  <2>4. AtOK'
    BY <1>1, <1>2, <1>5, <2>1, <2>2 DEF IInv, AtOK
  <2>5. AloneOK'
    <3>1. \A q \in Runs : Active(q)' => Active(q)
      BY <1>2, <2>1 DEF Active
    <3>2. cas'[op'[r].dest] = NoFile /\ op'[r].pc # "fill"
      BY <1>5, <2>2
    <3>3. /\ "company" \notin happened => "company" \notin happened'
          /\ "company" \notin happened' => "company" \notin happened
      BY <1>2
    <3>4. ASSUME "company" \notin happened', NEW q \in Runs
          PROVE  /\ op'[q].pc \in {"link", "copy"} => cas'[op'[q].dest] = NoFile
                 /\ op'[q].pc = "fill" => bytes'[cas'[op'[q].dest]] = Partial
      <4>1. CASE q = r
        BY <3>2, <4>1
      <4>2. CASE q # r
        BY <1>2, <1>5, <2>1, <3>3, <3>4, <4>2 DEF IInv, AloneOK
      <4> QED BY <4>1, <4>2
    <3>5. ASSUME "company" \notin happened', NEW p \in Runs, NEW q \in Runs,
                 Active(p)', Active(q)'
          PROVE  p = q
      BY <3>1, <3>3, <3>5 DEF IInv, AloneOK
    <3> QED BY <3>4, <3>5 DEF AloneOK
  <2>6. Listed(op[r].got)'
    BY <1>5, <2>2 DEF IInv, ListedOK, Listed
  <2>7. ListedOK'
    BY <1>2, <1>5, <2>1, <2>6, ListedStays
  <2> QED BY <2>3, <2>4, <2>5, <2>7 DEF IInv
<1> QED BY <1>3, <1>4, <1>5 DEF Link

\* A copy begins in a file of its own, or in the one that lies there.
LEMMA OpenCopyStep == ASSUME IInv, NEW r \in Runs, OpenCopy(r) PROVE IInv'
<1> DEFINE s == op[r].at
           k == op[r].dest
<1>1. op[r] \in Ops /\ s \in Sources /\ k \in Keys /\ ~sameDevice
  BY DEF IInv, TypeOK, AtOK, OpenCopy
<1>2. /\ op[r].pc = "copy" /\ Active(r)
      /\ UNCHANGED <<source, records, sameDevice, happened>>
  BY DEF OpenCopy, Active, Resting
<1>3. CASE Step(r, op[r], "failed") /\ UNCHANGED <<cas, bytes>>
  BY <1>1, <1>2, <1>3, OwnStep DEF records, files, Pcs
<1>4. CASE source[s] # NoFile
  <2>1. PICK i \in Inodes :
          /\ IF cas[k] = NoFile THEN IsFresh(i) ELSE i = cas[k]
          /\ cas' = [cas EXCEPT ![k] = i]
          /\ bytes' = [bytes EXCEPT ![i] = Partial]
          /\ Step(r, [op[r] EXCEPT !.from = source[s]], "fill")
    BY <1>4 DEF OpenCopy
  <2>2. i # NoFile /\ source[s] \in Inodes
    BY <1>1, <1>4, MarksAssumption DEF IInv, TypeOK
  <2>3. /\ \A t \in Sources : source[t] # i
        /\ \A l \in Keys \ {k} : cas[l] # i
    BY <1>1, <2>1, <2>2 DEF IInv, DevicesOK, IsFresh, Unused, Linked
  <2> DEFINE o == [op[r] EXCEPT !.from = source[s]]
  <2>4. /\ o \in Ops /\ o.at = s /\ o.dest = k
        /\ o.from = source[s] /\ o.got = op[r].got
        /\ Step(r, o, "fill") /\ "fill" \in Pcs
    BY <1>1, <2>1, <2>2 DEF Ops, Pcs
  <2> HIDE DEF o
  <2>5. /\ op' \in [Runs -> Ops]
        /\ op'[r] = [o EXCEPT !.pc = "fill"]
        /\ \A q \in Runs \ {r} : op'[q] = op[q]
    BY <2>4, StepIsTyped DEF IInv
  <2>6. /\ op'[r].pc = "fill" /\ op'[r].at = s /\ op'[r].dest = k
        /\ op'[r].from = source[s] /\ op'[r].got = op[r].got
    BY <2>4, <2>5 DEF Ops
  <2>7. /\ cas' \in [Keys -> Inodes \cup {NoFile}]
        /\ cas'[k] = i /\ \A l \in Keys \ {k} : cas'[l] = cas[l]
        /\ bytes' \in [Inodes -> Contents \cup {Partial}]
        /\ bytes'[i] = Partial /\ \A j \in Inodes \ {i} : bytes'[j] = bytes[j]
    BY <1>1, <2>1 DEF IInv, TypeOK
  <2>8. TypeOK'
    BY <1>2, <2>5, <2>7 DEF IInv, TypeOK
  <2>9. SourcesOK'
    BY <1>2, <2>3, <2>7 DEF IInv, TypeOK, SourcesOK
  <2>10. DevicesOK'
    BY <1>1, <1>2, <2>3, <2>7 DEF IInv, DevicesOK
  <2>11. AtOK'
    <3>1. \A l \in Keys : cas[l] # NoFile => cas'[l] # NoFile
      BY <2>2, <2>7
    <3>2. ASSUME NEW q \in Runs \ {r}
          PROVE  /\ op'[q].pc \in {"check", "link", "copy", "fill"} =>
                      op'[q].at \in Sources /\ op'[q].dest \in Keys
                 /\ op'[q].pc = "fill" =>
                      op'[q].from \in Inodes /\ cas'[op'[q].dest] # NoFile
      BY <2>5, <3>1 DEF IInv, AtOK
    <3>3. /\ op'[r].at \in Sources /\ op'[r].dest \in Keys
          /\ op'[r].from \in Inodes /\ cas'[op'[r].dest] # NoFile
      BY <1>1, <2>2, <2>6, <2>7
    <3> QED BY <1>1, <1>2, <3>2, <3>3 DEF AtOK
  <2>12. ASSUME "company" \notin happened, NEW q \in Runs \ {r} PROVE op[q].pc \in Resting
    BY <1>2, <2>12 DEF IInv, AloneOK, Active
  <2>13. AloneOK'
    <3>1. bytes'[cas'[op'[r].dest]] = Partial
      BY <2>6, <2>7
    <3>2. ASSUME "company" \notin happened, NEW q \in Runs, op'[q].pc \notin Resting
          PROVE  q = r
      BY <2>5, <2>12, <3>2
    <3> QED BY <1>2, <2>6, <3>1, <3>2 DEF AloneOK, Active, Resting
  <2>14. Listed(op[r].got)'
    BY <2>2, <2>6, <2>7 DEF IInv, ListedOK, Listed
  <2>15. ListedOK'
    BY <1>2, <2>2, <2>5, <2>7, <2>14, ListedStays
  <2> QED BY <2>8, <2>9, <2>10, <2>11, <2>13, <2>15 DEF IInv
<1> QED BY <1>3, <1>4 DEF OpenCopy

\* A copy that is filled touches neither a source nor another stored file.
LEMMA FillCopyStep == ASSUME IInv, NEW r \in Runs, FillCopy(r) PROVE IInv'
<1> DEFINE k == op[r].dest
<1>1. /\ op[r] \in Ops /\ op[r].at \in Sources /\ k \in Keys /\ ~sameDevice
      /\ op[r].from \in Inodes /\ cas[k] \in Inodes
  BY DEF IInv, TypeOK, AtOK, FillCopy
<1>2. /\ op[r].pc = "fill" /\ Active(r) /\ Stored(r)
      /\ UNCHANGED <<source, cas, records, sameDevice, happened>>
      /\ bytes' = [bytes EXCEPT ![cas[k]] = bytes[op[r].from]]
  BY DEF FillCopy, Active, Resting
<1>3. /\ op' \in [Runs -> Ops]
      /\ \A q \in Runs \ {r} : op'[q] = op[q]
      /\ op'[r].pc \in {"record", "store"}
      /\ \A x \in DOMAIN op'[r].got :
           \/ op'[r].got[x] = k
           \/ x \in DOMAIN op[r].got /\ op'[r].got[x] = op[r].got[x]
  BY <1>1, <1>2, StoredIsTyped DEF IInv
<1>4. /\ bytes' \in [Inodes -> Contents \cup {Partial}]
      /\ \A j \in Inodes \ {cas[k]} : bytes'[j] = bytes[j]
  BY <1>1, <1>2 DEF IInv, TypeOK
<1>5. TypeOK'
  BY <1>2, <1>3, <1>4 DEF IInv, TypeOK
<1>6. SourcesOK' /\ DevicesOK'
  BY <1>1, <1>2, <1>4, MarksAssumption DEF IInv, TypeOK, SourcesOK, DevicesOK
<1>7. AtOK'
  BY <1>2, <1>3 DEF IInv, AtOK
<1>8. ASSUME "company" \notin happened, NEW q \in Runs \ {r} PROVE op[q].pc \in Resting
  BY <1>2, <1>8 DEF IInv, AloneOK, Active
<1>9. AloneOK'
  BY <1>2, <1>3, <1>8 DEF AloneOK, Active, Resting
<1>10. Listed(op[r].got)'
  BY <1>1, <1>2, <1>3, MarksAssumption DEF IInv, ListedOK, Listed
<1>11. ListedOK'
  BY <1>2, <1>3, <1>10, ListedStays
<1> QED BY <1>5, <1>6, <1>7, <1>9, <1>11 DEF IInv

\* A rewrite changes what a file of the source holds, and whatever shares it.
LEMMA RewriteStep ==
  ASSUME IInv, NEW s \in Sources, NEW c \in Contents, RewriteInPlace(s, c)
  PROVE  IInv'
<1>1. /\ source[s] \in Inodes /\ bytes' = [bytes EXCEPT ![source[s]] = c]
      /\ UNCHANGED <<source, cas, op, sameDevice, tmp, manifests>>
      /\ happened \subseteq happened' /\ happened' \in SUBSET Disturbances
      /\ "company" \in happened' <=> "company" \in happened
  BY DEF RewriteInPlace, Changed, IInv, TypeOK, records, Disturbances
<1>2. /\ bytes' \in [Inodes -> Contents \cup {Partial}]
      /\ \A i \in Inodes : bytes'[i] = IF i = source[s] THEN c ELSE bytes[i]
  BY <1>1 DEF IInv, TypeOK
<1>3. TypeOK' /\ SourcesOK' /\ DevicesOK'
  BY <1>1, <1>2 DEF IInv, TypeOK, SourcesOK, DevicesOK
<1>4. AtOK' /\ ListedOK'
  BY <1>1 DEF IInv, AtOK, ListedOK, Listed
<1>5. ASSUME NEW r \in Runs, op[r].pc = "fill"
      PROVE  bytes'[cas[op[r].dest]] = bytes[cas[op[r].dest]]
  <2>1. op[r].dest \in Keys /\ ~sameDevice /\ cas[op[r].dest] # NoFile
    BY <1>5 DEF IInv, AtOK
  <2>2. cas[op[r].dest] \in Inodes /\ cas[op[r].dest] # source[s]
    BY <2>1 DEF IInv, TypeOK, DevicesOK
  <2> QED BY <1>2, <2>2
<1>6. AloneOK'
  BY <1>1, <1>5 DEF IInv, AloneOK, Active
<1> QED BY <1>3, <1>4, <1>6 DEF IInv

\* A file moved over the source is new.
LEMMA ReplaceStep ==
  ASSUME IInv, NEW s \in Sources, NEW c \in Contents, ReplaceSource(s, c)
  PROVE  IInv'
<1>1. PICK i \in Inodes : /\ IsFresh(i)
                          /\ source' = [source EXCEPT ![s] = i]
                          /\ bytes' = [bytes EXCEPT ![i] = c]
  BY DEF ReplaceSource
<1>2. /\ UNCHANGED <<cas, op, sameDevice, tmp, manifests>>
      /\ happened \subseteq happened' /\ happened' \in SUBSET Disturbances
      /\ "company" \in happened' <=> "company" \in happened
  BY DEF ReplaceSource, Changed, IInv, TypeOK, records, Disturbances
<1>3. \A k \in Keys : cas[k] # i
  BY <1>1 DEF IsFresh, Unused, Linked
<1>4. /\ bytes' \in [Inodes -> Contents \cup {Partial}]
      /\ \A j \in Inodes : bytes'[j] = IF j = i THEN c ELSE bytes[j]
      /\ source' \in [Sources -> Inodes \cup {NoFile}]
      /\ \A t \in Sources : source'[t] = IF t = s THEN i ELSE source[t]
  BY <1>1 DEF IInv, TypeOK
<1>5. TypeOK' /\ SourcesOK'
  BY <1>2, <1>4 DEF IInv, TypeOK, SourcesOK
<1>6. DevicesOK'
  BY <1>2, <1>3, <1>4 DEF IInv, TypeOK, DevicesOK
<1>7. AtOK' /\ ListedOK'
  BY <1>2 DEF IInv, AtOK, ListedOK, Listed
<1>8. ASSUME NEW r \in Runs, op[r].pc = "fill"
      PROVE  bytes'[cas[op[r].dest]] = bytes[cas[op[r].dest]]
  <2>1. op[r].dest \in Keys /\ cas[op[r].dest] # NoFile
    BY <1>8 DEF IInv, AtOK
  <2>2. cas[op[r].dest] \in Inodes /\ cas[op[r].dest] # i
    BY <1>3, <2>1 DEF IInv, TypeOK
  <2> QED BY <1>4, <2>2
<1>9. AloneOK'
  BY <1>2, <1>8 DEF IInv, AloneOK, Active
<1> QED BY <1>5, <1>6, <1>7, <1>9 DEF IInv

\* A removed source leaves what the store shares with it.
LEMMA RemoveStep == ASSUME IInv, NEW s \in Sources, RemoveSource(s) PROVE IInv'
<1>1. /\ source' = [source EXCEPT ![s] = NoFile]
      /\ UNCHANGED <<cas, bytes, op, sameDevice, tmp, manifests>>
      /\ happened' \in SUBSET Disturbances
      /\ "company" \in happened' <=> "company" \in happened
  BY DEF RemoveSource, Changed, IInv, TypeOK, records, Disturbances
<1>2. TypeOK' /\ SourcesOK' /\ DevicesOK'
  BY <1>1 DEF IInv, TypeOK, SourcesOK, DevicesOK
<1>3. AtOK' /\ ListedOK' /\ AloneOK'
  BY <1>1 DEF IInv, AtOK, ListedOK, Listed, AloneOK, Active
<1> QED BY <1>2, <1>3 DEF IInv

-----------------------------------------------------------------------------
\* In every reachable state the store is shared as said.
THEOREM SnapshotInvariant == Spec => []IInv
<1>1. IInv /\ [Next]_vars => IInv'
  <2> SUFFICES ASSUME IInv, [Next]_vars PROVE IInv'
    OBVIOUS
  <2>1. ASSUME NEW r \in Runs, Snapshot(r) PROVE IInv'
    BY <2>1, StartStep, ListStep, DigestFileStep, ReadRowsStep, NameFileStep,
       CheckStoredStep, LinkStep, OpenCopyStep, FillCopyStep, WriteTmpStep, PublishStep
       DEF Snapshot
  <2>2. ASSUME NEW r \in Runs, Crash(r) PROVE IInv'
    BY <2>2, CrashStep
  <2>3. ASSUME NEW s \in Sources, RemoveSource(s) PROVE IInv'
    BY <2>3, RemoveStep
  <2>4. ASSUME NEW s \in Sources, NEW c \in Contents,
               RewriteInPlace(s, c) \/ ReplaceSource(s, c)
        PROVE  IInv'
    BY <2>4, RewriteStep, ReplaceStep
  <2>5. CASE UNCHANGED vars
    BY <2>5 DEF vars, files, records, IInv, TypeOK, SourcesOK, DevicesOK, AtOK,
                AloneOK, ListedOK, Listed, Active
  <2> QED BY <2>1, <2>2, <2>3, <2>4, <2>5 DEF Next
<1> QED BY InitHolds, <1>1, PTL DEF Spec

\* data/versioning.py:147-172: the manifest is written last, so every file a manifest
\* lists is in the store, however many runs die, fail or race.
THEOREM ManifestsAreReadable == Spec => []ManifestIsReadable
<1>1. IInv => ManifestIsReadable
  BY DEF IInv, ListedOK, Listed, ManifestIsReadable
<1> QED BY <1>1, SnapshotInvariant, PTL

\* What StoreIsStable says of one step.
Stays ==
  (IF sameDevice THEN "rewrite" \notin happened' ELSE "company" \notin happened') =>
    \A k \in Keys : cas[k] # NoFile /\ bytes[cas[k]] \in Contents =>
      cas'[k] = cas[k] /\ bytes'[cas[k]] = bytes[cas[k]]

\* The steps of a run that touch the store take a free name or a half copy.
LEMMA RunsKeepTheStore ==
  ASSUME IInv, NEW r \in Runs, Link(r) \/ OpenCopy(r) \/ FillCopy(r)
  PROVE  Stays
<1>1. CASE Link(r)
  <2>1. UNCHANGED bytes /\ op[r].dest \in Keys
    BY <1>1 DEF Link, IInv, AtOK
  <2>2. \/ UNCHANGED cas
        \/ /\ cas[op[r].dest] = NoFile
           /\ cas' = [cas EXCEPT ![op[r].dest] = source[op[r].at]]
    BY <1>1 DEF Link
  <2>3. \A k \in Keys : cas[k] # NoFile => cas'[k] = cas[k]
    BY <2>1, <2>2 DEF IInv, TypeOK
  <2> QED BY <2>1, <2>3 DEF Stays
<1>2. CASE OpenCopy(r)
  <2>1. UNCHANGED happened /\ ~sameDevice /\ op[r].pc = "copy" /\ op[r].dest \in Keys
    BY <1>2 DEF OpenCopy, IInv, AtOK
  <2>2. CASE UNCHANGED <<cas, bytes>>
    BY <2>2 DEF Stays
  <2>3. ASSUME "company" \notin happened,
               NEW i \in Inodes, IsFresh(i),
               cas' = [cas EXCEPT ![op[r].dest] = i],
               bytes' = [bytes EXCEPT ![i] = Partial]
        PROVE  Stays
    <3>1. cas[op[r].dest] = NoFile
      BY <2>1, <2>3 DEF IInv, AloneOK
    <3>2. \A k \in Keys : cas[k] # i
      BY <2>3 DEF IsFresh, Unused, Linked
    <3> QED BY <2>1, <2>3, <3>1, <3>2 DEF Stays, IInv, TypeOK
  <2>4. CASE "company" \in happened
    BY <2>1, <2>4 DEF Stays
  <2>5. "company" \notin happened => cas[op[r].dest] = NoFile
    BY <2>1 DEF IInv, AloneOK
  <2> QED BY <1>2, <2>2, <2>3, <2>4, <2>5 DEF OpenCopy
<1>3. CASE FillCopy(r)
  <2>1. /\ UNCHANGED <<cas, happened>> /\ ~sameDevice /\ op[r].pc = "fill"
        /\ op[r].dest \in Keys /\ cas[op[r].dest] \in Inodes
        /\ bytes' = [bytes EXCEPT ![cas[op[r].dest]] = bytes[op[r].from]]
    BY <1>3 DEF FillCopy, IInv, AtOK, TypeOK
  <2>2. "company" \notin happened => bytes[cas[op[r].dest]] \notin Contents
    BY <2>1, MarksAssumption DEF IInv, AloneOK
  <2> QED BY <2>1, <2>2 DEF Stays, IInv, TypeOK
<1> QED BY <1>1, <1>2, <1>3

\* Whoever changes the source changes no stored file, but by a rewrite of one
\* the store shares.
LEMMA OwnersKeepTheStore ==
  ASSUME IInv, NEW s \in Sources, NEW c \in Contents,
         RewriteInPlace(s, c) \/ ReplaceSource(s, c) \/ RemoveSource(s)
  PROVE  Stays
<1>1. CASE RewriteInPlace(s, c)
  <2>1. /\ UNCHANGED <<cas, sameDevice>> /\ "rewrite" \in happened'
        /\ source[s] # NoFile /\ bytes' = [bytes EXCEPT ![source[s]] = c]
    BY <1>1 DEF RewriteInPlace, Changed
  <2>2. ~sameDevice => \A k \in Keys : cas[k] # NoFile => cas[k] # source[s]
    BY DEF IInv, DevicesOK
  <2> QED BY <2>1, <2>2 DEF Stays, IInv, TypeOK
<1>2. CASE ReplaceSource(s, c)
  <2>1. PICK i \in Inodes : IsFresh(i) /\ bytes' = [bytes EXCEPT ![i] = c]
    BY <1>2 DEF ReplaceSource
  <2>2. UNCHANGED cas /\ \A k \in Keys : cas[k] # i
    BY <1>2, <2>1 DEF ReplaceSource, IsFresh, Unused, Linked
  <2> QED BY <2>1, <2>2 DEF Stays, IInv, TypeOK
<1>3. CASE RemoveSource(s)
  BY <1>3 DEF RemoveSource, Stays
<1> QED BY <1>1, <1>2, <1>3

\* data/versioning.py:107-131: a file that is in the store whole keeps its name
\* and its bytes for ever, unless a file shared on one device is rewritten, or two
\* runs copy at a time on two.
THEOREM StoresAreStable == Spec => StoreIsStable
<1>1. IInv /\ [Next]_vars => [Stays]_vars
  <2> SUFFICES ASSUME IInv, Next PROVE Stays
    BY DEF vars
  <2>1. ASSUME NEW r \in Runs, Snapshot(r), UNCHANGED files PROVE Stays
    BY <2>1 DEF files, Stays
  <2>2. ASSUME NEW r \in Runs, Crash(r) PROVE Stays
    BY <2>2 DEF Crash, files, Stays
  <2>3. ASSUME NEW r \in Runs, Snapshot(r)
        PROVE  UNCHANGED files \/ Link(r) \/ OpenCopy(r) \/ FillCopy(r)
    BY <2>3 DEF Snapshot, Start, List, DigestFile, ReadRows, NameFile, CheckStored,
                WriteTmp, Publish
  <2>4. ASSUME NEW s \in Sources, RemoveSource(s) PROVE Stays
    BY <2>4 DEF RemoveSource, Stays
  <2> QED BY <2>1, <2>2, <2>3, <2>4, RunsKeepTheStore, OwnersKeepTheStore DEF Next
<1>2. StoreIsStable <=> [][Stays]_vars
  BY DEF StoreIsStable, Stays
<1> QED BY <1>1, <1>2, SnapshotInvariant, PTL DEF Spec

-----------------------------------------------------------------------------
(* What manifests say                                                      *)
(*                                                                         *)
(* Nothing moves under a run unless it raced with an owner of the source:  *)
(* what it noted in three passes is still so when it writes its manifest   *)
(* (NotesOK).  The store holds under a name what the name says, but for    *)
(* the file a run alone is filling, which nothing lists (StoreOK, OwnOK);  *)
(* and the version id of a manifest is that of the names it lists          *)
(* (RecordsOK), whatever the store holds.                                  *)

\* What a run noted of its source is still so.
Found(s) == bytes[source[s]]

DigestOK(o) == /\ DOMAIN o.digest \subseteq Present
               /\ \A s \in DOMAIN o.digest : o.digest[s] = Found(s)
RowsOK(o) == /\ DOMAIN o.rows \subseteq Present
             /\ \A s \in DOMAIN o.rows : o.rows[s] = RowsOf[Found(s)]
GotOK(o) == /\ DOMAIN o.got \subseteq Present
            /\ \A s \in DOMAIN o.got : o.got[s] = <<Found(s), NameOf[s]>>

Placed == {"check", "link", "copy", "fill"}
PlaceOK(o) == /\ o.pc \in Placed =>
                   o.at \in Present /\ o.dest = <<Found(o.at), NameOf[o.at]>>
              /\ o.pc = "fill" => o.from = source[o.at]

\* How far the passes are.
PassOK(o) ==
  /\ o.listed = Present
  /\ o.pc # "list" => o.scanned = Present /\ Present # {}
  /\ o.pc \notin {"list", "digest"} => DOMAIN o.digest = Present
  /\ o.pc \notin {"list", "digest", "rows"} => DOMAIN o.rows = Present
  /\ o.pc \in {"record", "publish"} => DOMAIN o.got = Present

NoteOK(o) == DigestOK(o) /\ RowsOK(o) /\ GotOK(o) /\ PlaceOK(o) /\ PassOK(o)

NotesOK == "race" \notin happened => \A r \in Runs : Active(r) => NoteOK(op[r])

\* A run that is alone finds its temporary manifest, and fills a file that
\* nothing lists yet.
Lists(f, k) == \E s \in DOMAIN f : f[s] = k
OwnOK ==
  "company" \notin happened => \A r \in Runs :
    /\ op[r].pc = "publish" => \E t \in tmp : t.version = ManifestOf(op[r]).version
    /\ op[r].pc = "fill" => /\ ~Lists(op[r].got, op[r].dest)
                            /\ \A m \in tmp \cup manifests : ~Lists(m.files, op[r].dest)

\* The store holds under each name what the name says, or is about to.
StoreOK ==
  Undisturbed => \A k \in Keys :
    cas[k] # NoFile => \/ bytes[cas[k]] = k[1]
                       \/ \E r \in Runs : op[r].pc = "fill" /\ op[r].dest = k

\* The version id of a manifest is that of the names it lists.
TrueRecord(m) ==
  m.version = <<Tally([s \in DOMAIN m.files |-> m.files[s][1]]),
                Tally([s \in DOMAIN m.files |-> RowsOf[m.files[s][1]]])>>
RecordsOK == Undisturbed => \A m \in tmp \cup manifests : TrueRecord(m)

TruthOK == NotesOK /\ OwnOK /\ StoreOK /\ RecordsOK /\ FailsForACause

LEMMA InitIsTrue == Init => TruthOK
<1> SUFFICES ASSUME Init PROVE TruthOK
  OBVIOUS
<1>1. \A r \in Runs : op[r] = Blank
  BY DEF Init
<1>2. \A r \in Runs : op[r].pc = "idle"
  BY <1>1 DEF Blank
<1>3. NotesOK
  BY <1>2 DEF NotesOK, Active, Resting
<1>4. OwnOK /\ FailsForACause
  BY <1>2 DEF OwnOK, FailsForACause
<1>5. \A k \in Keys : cas[k] = NoFile
  BY DEF Init
<1>6. StoreOK
  BY <1>5 DEF StoreOK
<1>7. RecordsOK
  BY DEF Init, RecordsOK
<1> QED BY <1>3, <1>4, <1>6, <1>7 DEF TruthOK

\* A note stays true while the files it was taken of stay.
LEMMA NoteStays ==
  ASSUME NEW o, NoteOK(o), source' = source,
         \A s \in Present : bytes'[source[s]] = bytes[source[s]],
         o.pc \in Placed => o.at \in Present
  PROVE  NoteOK(o)'
<1>1. Present' = Present /\ \A s \in Present : Found(s)' = Found(s)
  BY DEF Present, Found
<1>2. DigestOK(o)'
  BY <1>1 DEF NoteOK, DigestOK
<1>3. RowsOK(o)'
  BY <1>1 DEF NoteOK, RowsOK
<1>4. GotOK(o)'
  BY <1>1 DEF NoteOK, GotOK
<1>5. PlaceOK(o)'
  BY <1>1 DEF NoteOK, PlaceOK
<1>6. PassOK(o)'
  BY <1>1 DEF NoteOK, PassOK
<1> QED BY <1>2, <1>3, <1>4, <1>5, <1>6 DEF NoteOK

LEMMA GrowingHappened ==
  ASSUME sameDevice' = sameDevice, happened \subseteq happened'
  PROVE  Undisturbed' => Undisturbed
  BY DEF Undisturbed

\* Who is alone is alone.
LEMMA OthersRest ==
  ASSUME IInv, "company" \notin happened, NEW r \in Runs, Active(r) \/ ~Busy
  PROVE  \A q \in Runs \ {r} : op[q].pc \in Resting
  BY DEF IInv, AloneOK, Active, Busy

\* What a run has to keep to when it changes no file.
LEMMA TruthQuiet ==
  ASSUME IInv, TruthOK, NEW r \in Runs, NEW n \in Ops, op' = [op EXCEPT ![r] = n],
         UNCHANGED <<files, sameDevice>>, happened \subseteq happened',
         Active(r) \/ ~Busy \/ "company" \in happened',
         op[r].pc = "fill" => ~Undisturbed', n.pc # "fill",
         "race" \notin happened /\ n.pc \notin Resting => NoteOK(n),
         n.pc = "failed" => n.scanned = {} \/ happened \cap {"race", "company"} # {},
         n.pc = "publish" => \E t \in tmp' : t.version = ManifestOf(n).version,
         Undisturbed => \A m \in tmp' \cup manifests' : m \in tmp \cup manifests \/ TrueRecord(m)
  PROVE  TruthOK'
<1>1. op'[r] = n /\ \A q \in Runs \ {r} : op'[q] = op[q]
  BY DEF IInv, TypeOK
<1>2. Undisturbed' => Undisturbed
  BY GrowingHappened
<1>3. UNCHANGED <<source, cas, bytes>>
  BY DEF files
<1>4. NotesOK'
  <2> SUFFICES ASSUME "race" \notin happened', NEW q \in Runs, Active(q)'
               PROVE  NoteOK(op[q])'
    BY DEF NotesOK
  <2>1. CASE q = r
    <3>1. NoteOK(n)
      BY <1>1, <2>1 DEF Active
    <3>2. NoteOK(n)'
      BY <1>3, <3>1, NoteStays DEF NoteOK, PlaceOK
    <3>3. PICK o : o = op'[q] /\ o = n
      BY <1>1, <2>1
    <3> QED BY <3>2, <3>3 DEF NoteOK, DigestOK, RowsOK, GotOK, PlaceOK, PassOK
  <2>2. CASE q # r
    <3>1. PICK o : o = op[q] /\ o = op'[q]
      BY <1>1, <2>2
    <3>2. NoteOK(o)
      BY <3>1 DEF TruthOK, NotesOK, Active
    <3>3. NoteOK(o)'
      BY <1>3, <3>2, NoteStays DEF NoteOK, PlaceOK
    <3> QED BY <3>1, <3>3 DEF NoteOK, DigestOK, RowsOK, GotOK, PlaceOK, PassOK
  <2> QED BY <2>1, <2>2
<1>5. OwnOK'
  <2> SUFFICES ASSUME "company" \notin happened', NEW q \in Runs
               PROVE  /\ op'[q].pc = "publish" =>
                           \E t \in tmp' : t.version = ManifestOf(op[q])'.version
                      /\ op'[q].pc # "fill"
    BY DEF OwnOK
  <2>1. CASE q = r
    BY <1>1, <2>1 DEF ManifestOf
  <2>2. CASE q # r
    BY <1>1, <2>2, OthersRest DEF Resting
  <2> QED BY <2>1, <2>2
<1>6. StoreOK'
  <2> SUFFICES ASSUME Undisturbed', NEW k \in Keys, cas[k] # NoFile, bytes[cas[k]] # k[1]
               PROVE  \E q \in Runs : op'[q].pc = "fill" /\ op'[q].dest = k
    BY <1>3 DEF StoreOK
  <2>1. PICK q \in Runs : op[q].pc = "fill" /\ op[q].dest = k
    BY <1>2 DEF TruthOK, StoreOK
  <2> QED BY <1>1, <2>1
<1>7. RecordsOK'
  BY <1>2 DEF TruthOK, RecordsOK, TrueRecord
<1>8. FailsForACause'
  BY <1>1 DEF TruthOK, FailsForACause
<1> QED BY <1>4, <1>5, <1>6, <1>7, <1>8 DEF TruthOK

\* A run that is at work and goes on with n, which it may note.
LEMMA TruthOwnStep ==
  ASSUME IInv, TruthOK, NEW r \in Runs, NEW o \in Ops, NEW pc \in Pcs, Active(r),
         Step(r, o, pc), op[r].pc # "fill", pc \notin {"fill", "publish"},
         "race" \notin happened /\ pc \notin Resting => NoteOK([o EXCEPT !.pc = pc]),
         pc = "failed" => o.scanned = {} \/ happened \cap {"race", "company"} # {},
         UNCHANGED <<files, sameDevice, happened>>,
         Undisturbed => \A m \in tmp' \cup manifests' : m \in tmp \cup manifests \/ TrueRecord(m)
  PROVE  TruthOK'
<1>1. PICK n \in Ops : n = [o EXCEPT !.pc = pc]
  BY DEF Ops
<1>2. n.pc = pc /\ n.scanned = o.scanned
  BY <1>1 DEF Ops
<1>3. op' = [op EXCEPT ![r] = n]
  BY <1>1 DEF Step
<1> QED BY <1>1, <1>2, <1>3, TruthQuiet

\* A run begins with the listing that is.
LEMMA StartIsTrue == ASSUME IInv, TruthOK, NEW r \in Runs, Start(r) PROVE TruthOK'
<1>1. PICK n : n = [[Blank EXCEPT !.listed = Present] EXCEPT !.pc = "list"]
  OBVIOUS
<1>2. /\ n \in Ops /\ n.pc = "list" /\ n.listed = Present
      /\ n.digest = <<>> /\ n.rows = <<>> /\ n.got = <<>>
  <2>1. Blank \in Ops /\ Present \in SUBSET Sources
    BY BlankIsTyped DEF Present
  <2>2. n = [Blank EXCEPT !.listed = Present, !.pc = "list"]
    BY <1>1, <2>1 DEF Ops
  <2>3. n \in Ops
    BY <2>1, <2>2 DEF Ops, Pcs
  <2> QED BY <2>2, <2>3 DEF Blank
<1>3. op' = [op EXCEPT ![r] = n]
  BY <1>1 DEF Start, Step
<1>4. /\ UNCHANGED <<files, records, sameDevice>> /\ happened \subseteq happened'
      /\ Busy => "company" \in happened'
      /\ op[r].pc \in Resting
  BY DEF Start, Active
<1>5. DOMAIN <<>> = {}
  OBVIOUS
<1>6. NoteOK(n)
  BY <1>2, <1>5 DEF NoteOK, DigestOK, RowsOK, GotOK, PlaceOK, PassOK, Placed
<1> QED BY <1>2, <1>3, <1>4, <1>6, TruthQuiet DEF records, Resting

\* The note of a run at work, field by field.
LEMMA Noting ==
  ASSUME IInv, TruthOK, NEW r \in Runs, Active(r), "race" \notin happened
  PROVE  /\ NoteOK(op[r]) /\ op[r].listed = Present
         /\ op[r].pc # "list" => op[r].scanned = Present /\ Present # {}
  BY DEF TruthOK, NotesOK, NoteOK, PassOK

\* compute_data_hash finds the files snapshot() found.
LEMMA ListIsTrue == ASSUME IInv, TruthOK, NEW r \in Runs, List(r) PROVE TruthOK'
<1>1. op[r] \in Ops /\ op[r].pc = "list" /\ Active(r)
  BY DEF IInv, TypeOK, List, Active, Resting
<1>2. PICK o \in Ops, pc \in {"failed", "digest"} :
        /\ o = [op[r] EXCEPT !.scanned = Present] /\ Step(r, o, pc)
        /\ pc = "failed" <=> Present = {}
  <2>1. [op[r] EXCEPT !.scanned = Present] \in Ops
    BY <1>1 DEF Ops, Present
  <2> QED BY <2>1 DEF List
<1>3. /\ o.scanned = Present /\ o.listed = op[r].listed /\ o.digest = op[r].digest
      /\ o.rows = op[r].rows /\ o.got = op[r].got
  BY <1>1, <1>2 DEF Ops
<1>4. PICK n \in Ops : n = [o EXCEPT !.pc = pc]
  BY <1>2 DEF Ops, Pcs
<1>5. /\ n.pc = pc /\ n.scanned = Present /\ n.listed = op[r].listed
      /\ n.digest = op[r].digest /\ n.rows = op[r].rows /\ n.got = op[r].got
  BY <1>3, <1>4 DEF Ops
<1>6. "race" \notin happened /\ pc \notin Resting => NoteOK(n)
  <2> SUFFICES ASSUME "race" \notin happened, pc = "digest" PROVE NoteOK(n)
    BY <1>2 DEF Resting
  <2>1. NoteOK(op[r])
    BY <1>1, Noting
  <2> QED BY <1>2, <1>5, <2>1 DEF NoteOK, DigestOK, RowsOK, GotOK, PlaceOK, PassOK, Placed
<1>7. UNCHANGED <<files, records, sameDevice, happened>>
  BY DEF List
<1>8. pc \in Pcs /\ pc \notin {"fill", "publish"}
  BY <1>2 DEF Pcs
<1> QED BY <1>1, <1>2, <1>3, <1>4, <1>6, <1>7, <1>8, TruthOwnStep DEF records

\* Digesting a file adds what it holds now.
LEMMA DigestFileIsTrue == ASSUME IInv, TruthOK, NEW r \in Runs, DigestFile(r) PROVE TruthOK'
<1> DEFINE todo == op[r].scanned \ DOMAIN op[r].digest
<1>1. op[r] \in Ops /\ op[r].pc = "digest" /\ Active(r)
  BY DEF IInv, TypeOK, DigestFile, Active, Resting
<1>2. PICK s \in todo :
        IF source[s] = NoFile THEN Step(r, op[r], "failed")
        ELSE Step(r, [op[r] EXCEPT !.digest = Noted(@, s, bytes[source[s]])],
                  IF todo = {s} THEN "rows" ELSE "digest")
  BY DEF DigestFile
<1>3. s \in Sources
  BY <1>1 DEF Ops
<1>4. UNCHANGED <<files, records, sameDevice, happened>>
  BY DEF DigestFile
<1>5. CASE source[s] = NoFile
  <2>1. "race" \in happened
    BY <1>1, <1>2, <1>5, Noting DEF Present
  <2> QED BY <1>1, <1>2, <1>4, <1>5, <2>1, TruthOwnStep DEF records, Pcs, Resting
<1>6. CASE source[s] # NoFile
  <2>1. PICK g \in Partials(Contents) : g = Noted(op[r].digest, s, Found(s))
    <3>1. Found(s) \in Contents
      BY <1>3, <1>6 DEF IInv, SourcesOK, Found
    <3> QED BY <1>1, <1>3, <3>1, PartialGrows DEF Ops
  <2>2. PICK o \in Ops, pc \in {"rows", "digest"} :
          /\ o = [op[r] EXCEPT !.digest = g] /\ Step(r, o, pc)
          /\ pc = "rows" => todo = {s}
    <3>1. [op[r] EXCEPT !.digest = g] \in Ops
      BY <1>1, <2>1 DEF Ops
    <3> QED BY <1>2, <1>6, <2>1, <3>1 DEF Found
  <2>3. PICK n \in Ops : n = [o EXCEPT !.pc = pc]
    BY <2>2 DEF Ops, Pcs
  <2>4. /\ n.pc = pc /\ n.scanned = op[r].scanned /\ n.listed = op[r].listed
        /\ n.digest = g /\ n.rows = op[r].rows /\ n.got = op[r].got
    BY <1>1, <2>2, <2>3 DEF Ops
  <2>5. DOMAIN g = DOMAIN op[r].digest \cup {s}
        /\ \A x \in DOMAIN g : g[x] = IF x = s THEN Found(s) ELSE op[r].digest[x]
    BY <2>1 DEF Noted
  <2>6. "race" \notin happened => NoteOK(n)
    <3> SUFFICES ASSUME "race" \notin happened PROVE NoteOK(n)
      OBVIOUS
    <3>1. NoteOK(op[r]) /\ op[r].scanned = Present /\ Present # {}
      BY <1>1, Noting
    <3>2. s \in Present
      BY <1>2, <3>1
    <3>3. DigestOK(n)
      BY <2>4, <2>5, <3>1, <3>2 DEF NoteOK, DigestOK
    <3>4. RowsOK(n) /\ GotOK(n)
      BY <2>4, <3>1 DEF NoteOK, RowsOK, GotOK
    <3>5. PlaceOK(n)
      BY <2>2, <2>4 DEF PlaceOK, Placed
    <3>6. pc = "rows" => DOMAIN g = Present
      BY <2>2, <2>5, <3>1, <3>2 DEF NoteOK, DigestOK
    <3>7. PassOK(n)
      BY <2>2, <2>4, <3>1, <3>6 DEF NoteOK, PassOK
    <3> QED BY <3>3, <3>4, <3>5, <3>7 DEF NoteOK
  <2>7. pc \in Pcs /\ pc \notin {"fill", "publish", "failed"}
    BY <2>2 DEF Pcs
  <2> QED BY <1>1, <1>4, <2>2, <2>3, <2>6, <2>7, TruthOwnStep DEF records
<1> QED BY <1>5, <1>6

\* So does the second pass.
LEMMA ReadRowsIsTrue == ASSUME IInv, TruthOK, NEW r \in Runs, ReadRows(r) PROVE TruthOK'
<1> DEFINE todo == op[r].scanned \ DOMAIN op[r].rows
           next == IF op[r].listed = {} THEN "record" ELSE "store"
<1>1. op[r] \in Ops /\ op[r].pc = "rows" /\ Active(r)
  BY DEF IInv, TypeOK, ReadRows, Active, Resting
<1>2. PICK s \in todo :
        IF source[s] = NoFile THEN Step(r, op[r], "failed")
        ELSE Step(r, [op[r] EXCEPT !.rows = Noted(@, s, RowsOf[bytes[source[s]]])],
                  IF todo = {s} THEN next ELSE "rows")
  BY DEF ReadRows
<1>3. s \in Sources
  BY <1>1 DEF Ops
<1>4. UNCHANGED <<files, records, sameDevice, happened>>
  BY DEF ReadRows
<1>5. CASE source[s] = NoFile
  <2>1. "race" \in happened
    BY <1>1, <1>2, <1>5, Noting DEF Present
  <2> QED BY <1>1, <1>2, <1>4, <1>5, <2>1, TruthOwnStep DEF records, Pcs, Resting
<1>6. CASE source[s] # NoFile
  <2>1. PICK g \in Partials({RowsOf[x] : x \in Contents}) :
          g = Noted(op[r].rows, s, RowsOf[Found(s)])
    <3>1. RowsOf[Found(s)] \in {RowsOf[x] : x \in Contents}
      BY <1>3, <1>6 DEF IInv, SourcesOK, Found
    <3> QED BY <1>1, <1>3, <3>1, PartialGrows DEF Ops
  <2>2. PICK o \in Ops, pc \in {"rows", "store", "record"} :
          /\ o = [op[r] EXCEPT !.rows = g] /\ Step(r, o, pc)
          /\ pc # "rows" => todo = {s}
          /\ pc = "record" => op[r].listed = {}
    <3>1. [op[r] EXCEPT !.rows = g] \in Ops
      BY <1>1, <2>1 DEF Ops
    <3> QED BY <1>2, <1>6, <2>1, <3>1 DEF Found
  <2>3. PICK n \in Ops : n = [o EXCEPT !.pc = pc]
    BY <2>2 DEF Ops, Pcs
  <2>4. /\ n.pc = pc /\ n.scanned = op[r].scanned /\ n.listed = op[r].listed
        /\ n.digest = op[r].digest /\ n.rows = g /\ n.got = op[r].got
    BY <1>1, <2>2, <2>3 DEF Ops
  <2>5. DOMAIN g = DOMAIN op[r].rows \cup {s}
        /\ \A x \in DOMAIN g : g[x] = IF x = s THEN RowsOf[Found(s)] ELSE op[r].rows[x]
    BY <2>1 DEF Noted
  <2>6. "race" \notin happened => NoteOK(n)
    <3> SUFFICES ASSUME "race" \notin happened PROVE NoteOK(n)
      OBVIOUS
    <3>1. NoteOK(op[r]) /\ op[r].scanned = Present /\ Present # {} /\ op[r].listed = Present
      BY <1>1, Noting
    <3>2. s \in Present
      BY <1>2, <3>1
    <3>3. RowsOK(n)
      BY <2>4, <2>5, <3>1, <3>2 DEF NoteOK, RowsOK
    <3>4. DigestOK(n) /\ GotOK(n)
      BY <2>4, <3>1 DEF NoteOK, DigestOK, GotOK
    <3>5. PlaceOK(n)
      BY <2>2, <2>4 DEF PlaceOK, Placed
    <3>6. pc # "rows" => DOMAIN g = Present
      BY <2>2, <2>5, <3>1, <3>2 DEF NoteOK, RowsOK
    <3>7. DOMAIN op[r].digest = Present
      BY <1>1, <3>1 DEF NoteOK, PassOK
    <3>8. PassOK(n)
      BY <2>2, <2>4, <3>1, <3>6, <3>7 DEF PassOK
    <3> QED BY <3>3, <3>4, <3>5, <3>8 DEF NoteOK
  <2>7. pc \in Pcs /\ pc \notin {"fill", "publish", "failed"}
    BY <2>2 DEF Pcs
  <2> QED BY <1>1, <1>4, <2>2, <2>3, <2>6, <2>7, TruthOwnStep DEF records
<1> QED BY <1>5, <1>6

\* The name a file gets in the store is of what it holds now.
LEMMA NameFileIsTrue == ASSUME IInv, TruthOK, NEW r \in Runs, NameFile(r) PROVE TruthOK'
<1> DEFINE todo == op[r].listed \ DOMAIN op[r].got
<1>1. op[r] \in Ops /\ op[r].pc = "store" /\ Active(r)
  BY DEF IInv, TypeOK, NameFile, Active, Resting
<1>2. PICK s \in todo :
        IF source[s] = NoFile THEN Step(r, op[r], "failed")
        ELSE Step(r, [op[r] EXCEPT !.at = s, !.dest = <<bytes[source[s]], NameOf[s]>>],
                  "check")
  BY DEF NameFile
<1>3. s \in Sources
  BY <1>1 DEF Ops
<1>4. UNCHANGED <<files, records, sameDevice, happened>>
  BY DEF NameFile
<1>5. CASE source[s] = NoFile
  <2>1. "race" \in happened
    BY <1>1, <1>2, <1>5, Noting DEF Present
  <2> QED BY <1>1, <1>2, <1>4, <1>5, <2>1, TruthOwnStep DEF records, Pcs, Resting
<1>6. CASE source[s] # NoFile
  <2>1. PICK k \in Keys : k = <<Found(s), NameOf[s]>>
    BY <1>3, <1>6 DEF IInv, SourcesOK, Keys, Found
  <2>2. PICK o \in Ops : /\ o = [op[r] EXCEPT !.at = s, !.dest = k]
                         /\ Step(r, o, "check")
    <3>1. [op[r] EXCEPT !.at = s, !.dest = k] \in Ops
      BY <1>1, <1>3 DEF Ops
    <3> QED BY <1>2, <1>6, <2>1, <3>1 DEF Found
  <2>3. PICK n \in Ops : n = [o EXCEPT !.pc = "check"]
    BY <2>2 DEF Ops, Pcs
  <2>4. /\ n.pc = "check" /\ n.scanned = op[r].scanned /\ n.listed = op[r].listed
        /\ n.digest = op[r].digest /\ n.rows = op[r].rows /\ n.got = op[r].got
        /\ n.at = s /\ n.dest = k
    BY <1>1, <2>2, <2>3 DEF Ops
  <2>5. "race" \notin happened => NoteOK(n)
    <3> SUFFICES ASSUME "race" \notin happened PROVE NoteOK(n)
      OBVIOUS
    <3>1. NoteOK(op[r]) /\ op[r].listed = Present
      BY <1>1, Noting
    <3>2. DigestOK(n) /\ RowsOK(n) /\ GotOK(n)
      BY <2>4, <3>1 DEF NoteOK, DigestOK, RowsOK, GotOK
    <3>3. PlaceOK(n)
      BY <1>2, <2>1, <2>4, <3>1 DEF PlaceOK
    <3>4. PassOK(n)
      BY <1>1, <2>4, <3>1 DEF NoteOK, PassOK
    <3> QED BY <3>2, <3>3, <3>4 DEF NoteOK
  <2> QED BY <1>1, <1>4, <2>2, <2>3, <2>5, TruthOwnStep DEF records, Pcs
<1> QED BY <1>5, <1>6

\* What a run knows after it appended a file to its list.
LEMMA StoredNote ==
  ASSUME IInv, NEW r \in Runs, op[r].at \in Sources, op[r].dest \in Keys,
         op[r].pc \in Placed, Stored(r)
  PROVE  \E n \in Ops :
           /\ op' = [op EXCEPT ![r] = n] /\ n.pc \in {"record", "store"}
           /\ NoteOK(op[r]) => NoteOK(n)
<1> DEFINE g0 == Noted(op[r].got, op[r].at, op[r].dest)
<1>1. op[r] \in Ops
  BY DEF IInv, TypeOK
<1>2. PICK g \in Partials(Keys) : g = g0
  BY <1>1, PartialGrows DEF Ops
<1>3. PICK pc \in {"record", "store"}, n \in Ops :
        /\ n = [[op[r] EXCEPT !.got = g, !.at = NoFile, !.dest = NoFile, !.from = NoFile]
                  EXCEPT !.pc = pc]
        /\ op' = [op EXCEPT ![r] = n]
        /\ pc = "record" => op[r].listed \ DOMAIN op[r].got = {op[r].at}
  <2>1. PICK pc \in {"record", "store"} :
          /\ Step(r, [op[r] EXCEPT !.got = g, !.at = NoFile, !.dest = NoFile, !.from = NoFile], pc)
          /\ pc = "record" => op[r].listed \ DOMAIN op[r].got = {op[r].at}
    BY <1>2 DEF Stored
  <2>2. [[op[r] EXCEPT !.got = g, !.at = NoFile, !.dest = NoFile, !.from = NoFile]
           EXCEPT !.pc = pc] \in Ops
    <3>1. [op[r] EXCEPT !.got = g, !.at = NoFile, !.dest = NoFile, !.from = NoFile] \in Ops
      BY <1>1 DEF Ops
    <3> QED BY <2>1, <3>1 DEF Ops, Pcs
  <2> QED BY <2>1, <2>2 DEF Step
<1>4. /\ n.pc = pc /\ n.scanned = op[r].scanned /\ n.listed = op[r].listed
      /\ n.digest = op[r].digest /\ n.rows = op[r].rows /\ n.got = g
  <2>1. PICK m \in Ops :
          m = [op[r] EXCEPT !.got = g, !.at = NoFile, !.dest = NoFile, !.from = NoFile]
    BY <1>1 DEF Ops
  <2>2. /\ m.scanned = op[r].scanned /\ m.listed = op[r].listed
        /\ m.digest = op[r].digest /\ m.rows = op[r].rows /\ m.got = g
    BY <1>1, <2>1 DEF Ops
  <2> QED BY <1>3, <2>1, <2>2 DEF Ops
<1>5. DOMAIN g = DOMAIN op[r].got \cup {op[r].at}
      /\ \A x \in DOMAIN g : g[x] = IF x = op[r].at THEN op[r].dest ELSE op[r].got[x]
  BY <1>2 DEF Noted
<1>6. ASSUME NoteOK(op[r]) PROVE NoteOK(n)
  <2>1. op[r].at \in Present /\ op[r].dest = <<Found(op[r].at), NameOf[op[r].at]>>
    BY <1>6 DEF NoteOK, PlaceOK
  <2>2. DigestOK(n) /\ RowsOK(n)
    BY <1>4, <1>6 DEF NoteOK, DigestOK, RowsOK
  <2>3. GotOK(n)
    BY <1>4, <1>5, <1>6, <2>1 DEF NoteOK, GotOK
  <2>4. PlaceOK(n)
    BY <1>3, <1>4 DEF PlaceOK, Placed
  <2>5. pc = "record" => DOMAIN g = Present
    BY <1>3, <1>5, <1>6, <2>1 DEF NoteOK, GotOK, PassOK
  <2>6. PassOK(n)
    BY <1>3, <1>4, <1>6, <2>5 DEF NoteOK, PassOK, Placed
  <2> QED BY <2>2, <2>3, <2>4, <2>6 DEF NoteOK
<1> QED BY <1>3, <1>4, <1>6

\* A file that is in the store is listed under the name it was looked for.
LEMMA CheckStoredIsTrue ==
  ASSUME IInv, TruthOK, NEW r \in Runs, CheckStored(r) PROVE TruthOK'
<1>1. /\ op[r] \in Ops /\ op[r].at \in Sources /\ op[r].dest \in Keys
      /\ op[r].pc = "check" /\ Active(r)
  BY DEF IInv, TypeOK, AtOK, CheckStored, Active, Resting
<1>2. UNCHANGED <<files, records, sameDevice, happened>>
  BY DEF CheckStored
<1>3. CASE Step(r, op[r], "link")
  <2>1. PICK n \in Ops : n = [op[r] EXCEPT !.pc = "link"]
    BY <1>1 DEF Ops, Pcs
  <2>2. /\ n.pc = "link" /\ n.scanned = op[r].scanned /\ n.listed = op[r].listed
        /\ n.digest = op[r].digest /\ n.rows = op[r].rows /\ n.got = op[r].got
        /\ n.at = op[r].at /\ n.dest = op[r].dest
    BY <1>1, <2>1 DEF Ops
  <2>3. NoteOK(op[r]) => NoteOK(n)
    BY <1>1, <2>2 DEF NoteOK, DigestOK, RowsOK, GotOK, PlaceOK, PassOK, Placed
  <2>4. "race" \notin happened => NoteOK(n)
    BY <1>1, <2>3, Noting
  <2> QED BY <1>1, <1>2, <1>3, <2>1, <2>4, TruthOwnStep DEF records, Pcs
<1>4. CASE Stored(r)
  <2>1. PICK n \in Ops : /\ op' = [op EXCEPT ![r] = n] /\ n.pc \in {"record", "store"}
                         /\ NoteOK(op[r]) => NoteOK(n)
    BY <1>1, <1>4, StoredNote DEF Placed
  <2>2. "race" \notin happened => NoteOK(n)
    BY <1>1, <2>1, Noting
  <2> QED BY <1>1, <1>2, <2>1, <2>2, TruthQuiet DEF records
<1> QED BY <1>3, <1>4 DEF CheckStored

\* The temporary manifest says what the run noted.
LEMMA WriteTmpIsTrue == ASSUME IInv, TruthOK, NEW r \in Runs, WriteTmp(r) PROVE TruthOK'
<1>1. op[r] \in Ops /\ op[r].pc = "record" /\ Active(r)
  BY DEF IInv, TypeOK, WriteTmp, Active, Resting
<1>2. UNCHANGED <<files, manifests, sameDevice, happened>>
  BY DEF WriteTmp
<1>3. PICK n \in Ops : n = [op[r] EXCEPT !.pc = "publish"]
  BY <1>1 DEF Ops, Pcs
<1>4. /\ n.pc = "publish" /\ n.scanned = op[r].scanned /\ n.listed = op[r].listed
      /\ n.digest = op[r].digest /\ n.rows = op[r].rows /\ n.got = op[r].got
  BY <1>1, <1>3 DEF Ops
<1>5. op' = [op EXCEPT ![r] = n]
  BY <1>3 DEF WriteTmp, Step
<1>6. PICK m : m = ManifestOf(op[r])
  OBVIOUS
<1>7. m = ManifestOf(n) /\ tmp' = {t \in tmp : t.version # m.version} \cup {m}
  BY <1>4, <1>6 DEF ManifestOf, WriteTmp
<1>8. "race" \notin happened => NoteOK(op[r])
  BY <1>1, Noting
<1>9. NoteOK(op[r]) => NoteOK(n)
  BY <1>1, <1>4 DEF NoteOK, DigestOK, RowsOK, GotOK, PlaceOK, PassOK, Placed
<1>10. Undisturbed => TrueRecord(m)
  <2> SUFFICES ASSUME Undisturbed PROVE TrueRecord(m)
    OBVIOUS
  <2>1. NoteOK(op[r])
    BY <1>8 DEF Undisturbed
  <2>2. /\ DOMAIN op[r].got = Present /\ DOMAIN op[r].digest = Present
        /\ DOMAIN op[r].rows = Present
    BY <1>1, <2>1 DEF NoteOK, PassOK
  <2>3. \A s \in Present : /\ op[r].got[s][1] = op[r].digest[s]
                           /\ RowsOf[op[r].got[s][1]] = op[r].rows[s]
    BY <2>1, <2>2 DEF NoteOK, DigestOK, RowsOK, GotOK
  <2>4. PICK S, T : op[r].digest \in [S -> Contents]
                    /\ op[r].rows \in [T -> {RowsOf[x] : x \in Contents}]
    BY <1>1 DEF Ops, Partials
  <2>5. op[r].digest = [s \in DOMAIN op[r].got |-> op[r].got[s][1]]
    BY <2>2, <2>3, <2>4
  <2>6. op[r].rows = [s \in DOMAIN op[r].got |-> RowsOf[op[r].got[s][1]]]
    BY <2>2, <2>3, <2>4
  <2>7. m.files = op[r].got /\ m.version = <<Tally(op[r].digest), Tally(op[r].rows)>>
    BY <1>6 DEF ManifestOf
  <2> QED BY <2>5, <2>6, <2>7 DEF TrueRecord
<1>11. m \in tmp' /\ \A x \in tmp' \cup manifests' : x \in tmp \cup manifests \/ x = m
  BY <1>2, <1>7
<1> QED
  BY <1>1, <1>2, <1>4, <1>5, <1>7, <1>8, <1>9, <1>10, <1>11, TruthQuiet

\* Publishing finds what was written, and moves it as it is.
LEMMA PublishIsTrue == ASSUME IInv, TruthOK, NEW r \in Runs, Publish(r) PROVE TruthOK'
<1>1. op[r] \in Ops /\ op[r].pc = "publish" /\ Active(r)
  BY DEF IInv, TypeOK, Publish, Active, Resting
<1>2. /\ UNCHANGED <<files, sameDevice, happened>>
      /\ tmp' \cup manifests' \subseteq tmp \cup manifests
  BY DEF Publish
<1>3. "company" \notin happened =>
        \E t \in tmp : t.version = ManifestOf(op[r]).version
  BY <1>1 DEF TruthOK, OwnOK
<1>4. PICK pc \in {"failed", "done"} : /\ Step(r, op[r], pc)
                                       /\ pc = "failed" => "company" \in happened
  BY <1>3 DEF Publish
<1> QED BY <1>1, <1>2, <1>4, TruthOwnStep DEF Pcs, Resting

\* A run that dies leaves no doubt but about the copy it was filling.
LEMMA CrashIsTrue == ASSUME IInv, TruthOK, NEW r \in Runs, Crash(r) PROVE TruthOK'
<1>1. /\ op' = [op EXCEPT ![r] = Blank] /\ Active(r)
      /\ UNCHANGED <<files, records, sameDevice>>
      /\ happened' = happened \cup (IF op[r].pc = "fill" THEN {"torn"} ELSE {})
  BY DEF Crash
<1>2. PICK n \in Ops : n = Blank
  BY BlankIsTyped
<1>3. n.pc = "idle"
  BY <1>2 DEF Blank
<1>4. op[r].pc = "fill" => ~Undisturbed'
  BY <1>1 DEF IInv, AtOK, Undisturbed
<1> QED BY <1>1, <1>2, <1>3, <1>4, TruthQuiet DEF records, Resting

\* A step that leaves the source as it is leaves the notes true.
LEMMA NotesStay ==
  ASSUME IInv, TruthOK, NEW r \in Runs, NEW n \in Ops, op' = [op EXCEPT ![r] = n],
         UNCHANGED <<source, happened>>,
         \A s \in Present : bytes'[source[s]] = bytes[source[s]],
         "race" \notin happened => NoteOK(n)
  PROVE  NotesOK'
<1> SUFFICES ASSUME "race" \notin happened, NEW q \in Runs, Active(q)'
             PROVE  NoteOK(op[q])'
  BY DEF NotesOK
<1>1. op'[r] = n /\ \A p \in Runs \ {r} : op'[p] = op[p]
  BY DEF IInv, TypeOK
<1>2. PICK o : o = op'[q] /\ (q = r => o = n) /\ (q # r => o = op[q])
  BY <1>1
<1>3. NoteOK(o)
  <2>1. CASE q = r
    BY <1>2, <2>1
  <2>2. CASE q # r
    <3>1. Active(q)
      BY <1>1, <2>2 DEF Active
    <3> QED BY <1>2, <2>2, <3>1 DEF TruthOK, NotesOK
  <2> QED BY <2>1, <2>2
<1>4. NoteOK(o)'
  BY <1>3, NoteStays DEF NoteOK, PlaceOK
<1> QED BY <1>2, <1>4 DEF NoteOK, DigestOK, RowsOK, GotOK, PlaceOK, PassOK

\* What a run at work on a file knows of it.
LEMMA AtThePlace ==
  ASSUME IInv, TruthOK, NEW r \in Runs, op[r].pc \in {"link", "copy", "fill"}
  PROVE  /\ op[r] \in Ops /\ op[r].at \in Sources /\ op[r].dest \in Keys
         /\ Active(r)
         /\ "race" \notin happened =>
              /\ NoteOK(op[r]) /\ op[r].at \in Present
              /\ bytes[source[op[r].at]] = op[r].dest[1]
              /\ op[r].pc = "fill" => op[r].from = source[op[r].at]
         /\ "company" \notin happened =>
              /\ op[r].pc # "fill" => cas[op[r].dest] = NoFile
              /\ \A q \in Runs \ {r} : op[q].pc \in Resting
<1>1. op[r] \in Ops /\ op[r].at \in Sources /\ op[r].dest \in Keys
  BY DEF IInv, TypeOK, AtOK
<1>2. Active(r)
  BY DEF Active, Resting
<1>3. ASSUME "race" \notin happened
      PROVE  /\ NoteOK(op[r]) /\ op[r].at \in Present
             /\ bytes[source[op[r].at]] = op[r].dest[1]
             /\ op[r].pc = "fill" => op[r].from = source[op[r].at]
  <2>1. NoteOK(op[r])
    BY <1>2, <1>3, Noting
  <2> QED BY <2>1 DEF NoteOK, PlaceOK, Placed, Found
<1>4. ASSUME "company" \notin happened
      PROVE  /\ op[r].pc # "fill" => cas[op[r].dest] = NoFile
             /\ \A q \in Runs \ {r} : op[q].pc \in Resting
  <2>1. \A q \in Runs \ {r} : op[q].pc \in Resting
    BY <1>2, <1>4, OthersRest
  <2>2. op[r].pc # "fill" => cas[op[r].dest] = NoFile
    BY <1>4 DEF IInv, AloneOK
  <2> QED BY <2>1, <2>2
<1> QED BY <1>1, <1>2, <1>3, <1>4

\* A link stores the file under the name of what it holds.
LEMMA LinkIsTrue == ASSUME IInv, TruthOK, NEW r \in Runs, Link(r) PROVE TruthOK'
<1>1. /\ op[r] \in Ops /\ op[r].at \in Sources /\ op[r].dest \in Keys
      /\ op[r].pc = "link" /\ Active(r)
      /\ "race" \notin happened =>
           /\ NoteOK(op[r]) /\ op[r].at \in Present
           /\ bytes[source[op[r].at]] = op[r].dest[1]
      /\ "company" \notin happened =>
           /\ cas[op[r].dest] = NoFile
           /\ \A q \in Runs \ {r} : op[q].pc \in Resting
  BY AtThePlace DEF Link
<1>2. UNCHANGED <<source, bytes, records, sameDevice, happened>>
  BY DEF Link
<1>3. CASE /\ source[op[r].at] = NoFile \/ cas[op[r].dest] # NoFile
           /\ Step(r, op[r], "failed") /\ UNCHANGED cas
  <2>1. happened \cap {"race", "company"} # {}
    BY <1>1, <1>3 DEF Present
  <2>2. UNCHANGED files /\ "failed" \in Pcs /\ "failed" \in Resting
    BY <1>2, <1>3 DEF files, Pcs, Resting
  <2> QED BY <1>1, <1>2, <1>3, <2>1, <2>2, TruthOwnStep DEF records
<1>4. CASE /\ cas[op[r].dest] = NoFile /\ sameDevice /\ Stored(r)
           /\ cas' = [cas EXCEPT ![op[r].dest] = source[op[r].at]]
  <2>1. PICK n \in Ops : /\ op' = [op EXCEPT ![r] = n] /\ n.pc \in {"record", "store"}
                         /\ NoteOK(op[r]) => NoteOK(n)
    BY <1>1, <1>4, StoredNote DEF Placed
  <2>2. op'[r] = n /\ \A q \in Runs \ {r} : op'[q] = op[q]
    BY <2>1 DEF IInv, TypeOK
  <2>3. NotesOK'
    BY <1>1, <1>2, <2>1, NotesStay
  <2>4. OwnOK'
    <3> SUFFICES ASSUME "company" \notin happened, NEW q \in Runs
                 PROVE  op'[q].pc \notin {"publish", "fill"}
      BY <1>2 DEF OwnOK
    <3> QED BY <1>1, <2>1, <2>2 DEF Resting
  <2>5. StoreOK'
    <3> SUFFICES ASSUME Undisturbed', NEW k \in Keys, cas'[k] # NoFile
                 PROVE  bytes[cas'[k]] = k[1]
      BY <1>2 DEF StoreOK
    <3>1. Undisturbed /\ "race" \notin happened
      BY <1>2 DEF Undisturbed
    <3>2. CASE k = op[r].dest
      BY <1>1, <1>4, <3>1, <3>2 DEF IInv, TypeOK
    <3>3. CASE k # op[r].dest
      <4>1. cas'[k] = cas[k]
        BY <1>4, <3>3 DEF IInv, TypeOK
      <4>2. \A q \in Runs : op[q].pc # "fill"
        BY <1>4 DEF IInv, AtOK
      <4> QED BY <3>1, <4>1, <4>2 DEF TruthOK, StoreOK
    <3> QED BY <3>2, <3>3
  <2>6. RecordsOK'
    BY <1>2 DEF TruthOK, RecordsOK, TrueRecord, Undisturbed, records
  <2>7. FailsForACause'
    BY <1>2, <2>1, <2>2 DEF TruthOK, FailsForACause
  <2> QED BY <2>3, <2>4, <2>5, <2>6, <2>7 DEF TruthOK
<1>5. CASE Step(r, op[r], "copy") /\ UNCHANGED cas
  <2>1. PICK n \in Ops : n = [op[r] EXCEPT !.pc = "copy"]
    BY <1>1 DEF Ops, Pcs
  <2>2. /\ n.pc = "copy" /\ n.scanned = op[r].scanned /\ n.listed = op[r].listed
        /\ n.digest = op[r].digest /\ n.rows = op[r].rows /\ n.got = op[r].got
        /\ n.at = op[r].at /\ n.dest = op[r].dest
    BY <1>1, <2>1 DEF Ops
  <2>3. NoteOK(op[r]) => NoteOK(n)
    BY <1>1, <2>2 DEF NoteOK, DigestOK, RowsOK, GotOK, PlaceOK, PassOK, Placed
  <2>4. UNCHANGED files /\ "copy" \in Pcs
    BY <1>2, <1>5 DEF files, Pcs
  <2> QED BY <1>1, <1>2, <1>5, <2>1, <2>3, <2>4, TruthOwnStep DEF records
<1> QED BY <1>3, <1>4, <1>5 DEF Link

\* A run that is alone copies to a name nothing lists.
LEMMA OpenCopyIsTrue == ASSUME IInv, TruthOK, NEW r \in Runs, OpenCopy(r) PROVE TruthOK'
<1>1. /\ op[r] \in Ops /\ op[r].at \in Sources /\ op[r].dest \in Keys
      /\ op[r].pc = "copy" /\ Active(r)
      /\ "race" \notin happened => NoteOK(op[r]) /\ op[r].at \in Present
      /\ "company" \notin happened =>
           /\ cas[op[r].dest] = NoFile
           /\ \A q \in Runs \ {r} : op[q].pc \in Resting
  BY AtThePlace DEF OpenCopy
<1>2. UNCHANGED <<source, records, sameDevice, happened>> /\ ~sameDevice
  BY <1>1 DEF OpenCopy, IInv, AtOK
<1>3. CASE source[op[r].at] = NoFile /\ Step(r, op[r], "failed") /\ UNCHANGED <<cas, bytes>>
  <2>1. happened \cap {"race", "company"} # {}
    BY <1>1, <1>3 DEF Present
  <2>2. UNCHANGED files /\ "failed" \in Pcs /\ "failed" \in Resting
    BY <1>2, <1>3 DEF files, Pcs, Resting
  <2> QED BY <1>1, <1>2, <1>3, <2>1, <2>2, TruthOwnStep DEF records
<1>4. ASSUME NEW i \in Inodes, source[op[r].at] # NoFile,
             IF cas[op[r].dest] = NoFile THEN IsFresh(i) ELSE i = cas[op[r].dest],
             cas' = [cas EXCEPT ![op[r].dest] = i],
             bytes' = [bytes EXCEPT ![i] = Partial],
             Step(r, [op[r] EXCEPT !.from = source[op[r].at]], "fill")
      PROVE  TruthOK'
  <2>1. source[op[r].at] \in Inodes
    BY <1>1, <1>4 DEF IInv, TypeOK
  <2>2. PICK o \in Ops : o = [op[r] EXCEPT !.from = source[op[r].at]]
    BY <1>1, <2>1 DEF Ops
  <2>3. PICK n \in Ops : n = [o EXCEPT !.pc = "fill"]
    BY DEF Ops, Pcs
  <2>4. /\ n.pc = "fill" /\ n.scanned = op[r].scanned /\ n.listed = op[r].listed
        /\ n.digest = op[r].digest /\ n.rows = op[r].rows /\ n.got = op[r].got
        /\ n.at = op[r].at /\ n.dest = op[r].dest /\ n.from = source[op[r].at]
    BY <1>1, <2>2, <2>3 DEF Ops
  <2>5. op' = [op EXCEPT ![r] = n]
    BY <1>4, <2>2, <2>3 DEF Step
  <2>6. op'[r] = n /\ \A q \in Runs \ {r} : op'[q] = op[q]
    BY <2>5 DEF IInv, TypeOK
  <2>7. /\ \A t \in Sources : source[t] # i
        /\ \A k \in Keys \ {op[r].dest} : cas[k] # i
    BY <1>1, <1>2, <1>4, MarksAssumption DEF IInv, DevicesOK, IsFresh, Unused, Linked
  <2>8. NotesOK'
    <3>1. NoteOK(op[r]) => NoteOK(n)
      BY <1>1, <2>4 DEF NoteOK, DigestOK, RowsOK, GotOK, PlaceOK, PassOK, Placed
    <3>2. \A s \in Present : bytes'[source[s]] = bytes[source[s]]
      BY <1>4, <2>7 DEF IInv, TypeOK, Present
    <3> QED BY <1>1, <1>2, <2>5, <3>1, <3>2, NotesStay
  <2>9. OwnOK'
    <3> SUFFICES ASSUME "company" \notin happened
                 PROVE  /\ ~Lists(n.got, n.dest)
                        /\ \A m \in tmp \cup manifests : ~Lists(m.files, n.dest)
      <4>1. \A q \in Runs \ {r} : "company" \notin happened => op'[q].pc \notin {"publish", "fill"}
        BY <1>1, <2>6 DEF Resting
      <4> QED BY <1>2, <2>4, <2>6, <4>1 DEF OwnOK, records
    <3>1. cas[n.dest] = NoFile
      BY <1>1, <2>4
    <3> QED BY <2>4, <3>1 DEF IInv, ListedOK, Listed, Lists
  <2>10. StoreOK'
    <3> SUFFICES ASSUME Undisturbed', NEW k \in Keys, cas'[k] # NoFile, k # n.dest
                 PROVE  bytes'[cas'[k]] = k[1]
      BY <2>4, <2>6 DEF StoreOK
    <3>1. Undisturbed /\ "company" \notin happened
      BY <1>2 DEF Undisturbed
    <3>2. cas'[k] = cas[k] /\ cas[k] # i
      BY <1>4, <2>4, <2>7 DEF IInv, TypeOK
    <3>3. bytes'[cas[k]] = bytes[cas[k]]
      BY <1>4, <3>2 DEF IInv, TypeOK
    <3>4. \A q \in Runs : op[q].pc # "fill"
      BY <1>1, <3>1 DEF Resting
    <3> QED BY <3>1, <3>2, <3>3, <3>4 DEF TruthOK, StoreOK
  <2>11. RecordsOK'
    BY <1>2 DEF TruthOK, RecordsOK, TrueRecord, Undisturbed, records
  <2>12. FailsForACause'
    BY <1>2, <2>4, <2>6 DEF TruthOK, FailsForACause
  <2> QED BY <2>8, <2>9, <2>10, <2>11, <2>12 DEF TruthOK
<1> QED BY <1>3, <1>4 DEF OpenCopy

\* What a copy is filled with is what its name says.
LEMMA FillCopyIsTrue == ASSUME IInv, TruthOK, NEW r \in Runs, FillCopy(r) PROVE TruthOK'
<1>1. /\ op[r] \in Ops /\ op[r].at \in Sources /\ op[r].dest \in Keys
      /\ op[r].pc = "fill" /\ Active(r)
      /\ "race" \notin happened =>
           /\ NoteOK(op[r]) /\ op[r].from = source[op[r].at]
           /\ bytes[source[op[r].at]] = op[r].dest[1]
      /\ "company" \notin happened => \A q \in Runs \ {r} : op[q].pc \in Resting
  BY AtThePlace DEF FillCopy
<1>2. /\ UNCHANGED <<source, cas, records, sameDevice, happened>> /\ ~sameDevice
      /\ bytes' = [bytes EXCEPT ![cas[op[r].dest]] = bytes[op[r].from]]
      /\ cas[op[r].dest] \in Inodes
  BY <1>1 DEF FillCopy, IInv, AtOK, TypeOK
<1>3. PICK n \in Ops : /\ op' = [op EXCEPT ![r] = n] /\ n.pc \in {"record", "store"}
                       /\ NoteOK(op[r]) => NoteOK(n)
  BY <1>1, StoredNote DEF Placed, FillCopy
<1>4. op'[r] = n /\ \A q \in Runs \ {r} : op'[q] = op[q]
  BY <1>3 DEF IInv, TypeOK
<1>5. /\ \A t \in Sources : source[t] # cas[op[r].dest]
      /\ \A k \in Keys \ {op[r].dest} : cas[k] # cas[op[r].dest]
  BY <1>1, <1>2, MarksAssumption DEF IInv, DevicesOK
<1>6. NotesOK'
  <2>1. \A s \in Present : bytes'[source[s]] = bytes[source[s]]
    BY <1>2, <1>5 DEF IInv, TypeOK, Present
  <2> QED BY <1>1, <1>2, <1>3, <2>1, NotesStay
<1>7. OwnOK'
  <2> SUFFICES ASSUME "company" \notin happened, NEW q \in Runs
               PROVE  op'[q].pc \notin {"publish", "fill"}
    BY <1>2 DEF OwnOK
  <2> QED BY <1>1, <1>3, <1>4 DEF Resting
<1>8. StoreOK'
  <2> SUFFICES ASSUME Undisturbed', NEW k \in Keys, cas[k] # NoFile
               PROVE  bytes'[cas[k]] = k[1]
    BY <1>2 DEF StoreOK
  <2>1. Undisturbed /\ "company" \notin happened /\ "race" \notin happened
    BY <1>2 DEF Undisturbed
  <2>2. CASE k = op[r].dest
    BY <1>1, <1>2, <2>1, <2>2 DEF IInv, TypeOK
  <2>3. CASE k # op[r].dest
    <3>1. bytes'[cas[k]] = bytes[cas[k]]
      BY <1>2, <1>5, <2>3 DEF IInv, TypeOK
    <3>2. \A q \in Runs : ~(op[q].pc = "fill" /\ op[q].dest = k)
      BY <1>1, <2>1, <2>3 DEF Resting
    <3> QED BY <2>1, <3>1, <3>2 DEF TruthOK, StoreOK
  <2> QED BY <2>2, <2>3
<1>9. RecordsOK'
  BY <1>2 DEF TruthOK, RecordsOK, TrueRecord, Undisturbed, records
<1>10. FailsForACause'
  BY <1>2, <1>3, <1>4 DEF TruthOK, FailsForACause
<1> QED BY <1>6, <1>7, <1>8, <1>9, <1>10 DEF TruthOK

-----------------------------------------------------------------------------
(* The owners of the source and the truth *)

\* Who changes the source under a run at work races with it.
LEMMA OwnersLeaveTheTruth ==
  ASSUME IInv, TruthOK, UNCHANGED <<cas, records, op, sameDevice>>,
         happened \subseteq happened', Busy => "race" \in happened',
         \A k \in Keys : Undisturbed' /\ cas[k] # NoFile => bytes'[cas[k]] = bytes[cas[k]]
  PROVE  TruthOK'
<1>1. Undisturbed' => Undisturbed
  BY GrowingHappened
<1>2. NotesOK'
  BY DEF NotesOK, Active, Busy
<1>3. OwnOK'
  BY DEF TruthOK, OwnOK, ManifestOf, records
<1>4. StoreOK'
  BY <1>1 DEF TruthOK, StoreOK
<1>5. RecordsOK'
  BY <1>1 DEF TruthOK, RecordsOK, TrueRecord, records
<1>6. FailsForACause'
  BY DEF TruthOK, FailsForACause
<1> QED BY <1>2, <1>3, <1>4, <1>5, <1>6 DEF TruthOK

\* A rewrite spoils no copy, and a shared file is not undisturbed after one.
LEMMA RewriteIsTrue ==
  ASSUME IInv, TruthOK, NEW s \in Sources, NEW c \in Contents, RewriteInPlace(s, c)
  PROVE  TruthOK'
<1>1. /\ UNCHANGED <<source, cas, records, op, sameDevice>>
      /\ happened' = happened \cup {"rewrite"} \cup (IF Busy THEN {"race"} ELSE {})
      /\ source[s] # NoFile /\ bytes' = [bytes EXCEPT ![source[s]] = c]
  BY DEF RewriteInPlace, Changed
<1>2. ASSUME NEW k \in Keys, Undisturbed', cas[k] # NoFile
      PROVE  bytes'[cas[k]] = bytes[cas[k]]
  <2>1. ~sameDevice
    BY <1>1, <1>2 DEF Undisturbed
  <2>2. source[s] # cas[k]
    BY <1>2, <2>1 DEF IInv, DevicesOK
  <2> QED BY <1>1, <2>2 DEF IInv, TypeOK
<1> QED BY <1>1, <1>2, OwnersLeaveTheTruth

\* A file moved over the source is not one of the store's.
LEMMA ReplaceIsTrue ==
  ASSUME IInv, TruthOK, NEW s \in Sources, NEW c \in Contents, ReplaceSource(s, c)
  PROVE  TruthOK'
<1>1. /\ UNCHANGED <<cas, records, op, sameDevice>>
      /\ happened' = happened \cup (IF Busy THEN {"race"} ELSE {})
  BY DEF ReplaceSource, Changed
<1>2. PICK i \in Inodes : IsFresh(i) /\ bytes' = [bytes EXCEPT ![i] = c]
  BY DEF ReplaceSource
<1>3. \A k \in Keys : cas[k] # i
  BY <1>2 DEF IsFresh, Unused, Linked
<1>4. \A k \in Keys : cas[k] # NoFile => bytes'[cas[k]] = bytes[cas[k]]
  BY <1>2, <1>3 DEF IInv, TypeOK
<1> QED BY <1>1, <1>4, OwnersLeaveTheTruth

\* A removed source leaves what is stored.
LEMMA RemoveIsTrue ==
  ASSUME IInv, TruthOK, NEW s \in Sources, RemoveSource(s)
  PROVE  TruthOK'
<1>1. /\ UNCHANGED <<cas, bytes, records, op, sameDevice>>
      /\ happened' = happened \cup (IF Busy THEN {"race"} ELSE {})
  BY DEF RemoveSource, Changed
<1> QED BY <1>1, OwnersLeaveTheTruth

\* Nothing happens, and all stays true.
LEMMA RestIsTrue == ASSUME TruthOK, UNCHANGED vars PROVE TruthOK'
<1>1. UNCHANGED <<source, cas, bytes, tmp, manifests, op, sameDevice, happened>>
  BY DEF vars
<1>2. NotesOK'
  BY <1>1 DEF TruthOK, NotesOK, Active, NoteOK, DigestOK, RowsOK, GotOK, PlaceOK,
              PassOK, Found, Present
<1>3. OwnOK'
  BY <1>1 DEF TruthOK, OwnOK, ManifestOf
<1>4. StoreOK' /\ RecordsOK' /\ FailsForACause'
  BY <1>1 DEF TruthOK, StoreOK, RecordsOK, TrueRecord, FailsForACause, Undisturbed
<1> QED BY <1>2, <1>3, <1>4 DEF TruthOK

-----------------------------------------------------------------------------
\* In every reachable state what was noted is so, but for a race, and what is
\* stored and recorded is true, but for a disturbance.
THEOREM SnapshotTruth == Spec => []TruthOK
<1>1. IInv /\ TruthOK /\ [Next]_vars => TruthOK'
  <2> SUFFICES ASSUME IInv, TruthOK, [Next]_vars PROVE TruthOK'
    OBVIOUS
  <2>1. ASSUME NEW r \in Runs, Snapshot(r) PROVE TruthOK'
    BY <2>1, StartIsTrue, ListIsTrue, DigestFileIsTrue, ReadRowsIsTrue, NameFileIsTrue,
       CheckStoredIsTrue, LinkIsTrue, OpenCopyIsTrue, FillCopyIsTrue, WriteTmpIsTrue,
       PublishIsTrue DEF Snapshot
  <2>2. ASSUME NEW r \in Runs, Crash(r) PROVE TruthOK'
    BY <2>2, CrashIsTrue
  <2>3. ASSUME NEW s \in Sources, RemoveSource(s) PROVE TruthOK'
    BY <2>3, RemoveIsTrue
  <2>4. ASSUME NEW s \in Sources, NEW c \in Contents,
               RewriteInPlace(s, c) \/ ReplaceSource(s, c)
        PROVE  TruthOK'
    BY <2>4, RewriteIsTrue, ReplaceIsTrue
  <2> QED BY <2>1, <2>2, <2>3, <2>4, RestIsTrue DEF Next
<1> QED BY InitIsTrue, <1>1, SnapshotInvariant, PTL DEF Spec

\* data/versioning.py:107-172: undisturbed, the files a manifest lists hold the bytes
\* and the rows its version id stands for, however often runs die.
THEOREM ManifestsAreTrue == Spec => []ManifestIsTrue
<1>1. IInv /\ TruthOK => ManifestIsTrue
  <2> SUFFICES ASSUME IInv, TruthOK, Undisturbed, NEW m \in manifests
               PROVE  LET held == [s \in DOMAIN m.files |-> bytes[cas[m.files[s]]]]
                      IN  /\ \A s \in DOMAIN held : held[s] \in Contents
                          /\ m.version = <<Tally(held),
                               Tally([s \in DOMAIN held |-> RowsOf[held[s]]])>>
    BY DEF ManifestIsTrue
  <2>1. ASSUME NEW s \in DOMAIN m.files
        PROVE  m.files[s][1] \in Contents /\ bytes[cas[m.files[s]]] = m.files[s][1]
    <3>1. PICK k \in Keys : k = m.files[s] /\ cas[k] # NoFile
      BY <2>1 DEF IInv, ListedOK, Listed
    <3>2. ASSUME NEW r \in Runs, op[r].pc = "fill" PROVE op[r].dest # k
      <4>1. ~sameDevice
        BY <3>2 DEF IInv, AtOK
      <4>2. "company" \notin happened
        BY <4>1 DEF Undisturbed
      <4> QED BY <3>1, <3>2, <4>2 DEF TruthOK, OwnOK, Lists
    <3>3. bytes[cas[k]] = k[1]
      BY <3>1, <3>2 DEF TruthOK, StoreOK
    <3>4. k[1] \in Contents
      BY DEF Keys
    <3> QED BY <3>1, <3>3, <3>4
  <2>2. PICK held : held = [s \in DOMAIN m.files |-> bytes[cas[m.files[s]]]]
    OBVIOUS
  <2>3. held = [s \in DOMAIN m.files |-> m.files[s][1]]
    BY <2>1, <2>2
  <2>4. [s \in DOMAIN held |-> RowsOf[held[s]]]
          = [s \in DOMAIN m.files |-> RowsOf[m.files[s][1]]]
    BY <2>3
  <2>5. TrueRecord(m)
    BY DEF TruthOK, RecordsOK
  <2>6. m.version = <<Tally(held), Tally([s \in DOMAIN held |-> RowsOf[held[s]]])>>
    BY <2>3, <2>4, <2>5 DEF TrueRecord
  <2> QED BY <2>1, <2>2, <2>6
<1> QED BY <1>1, SnapshotInvariant, SnapshotTruth, PTL

\* data/versioning.py:66-68, 115-126, 147-157, 184-185: a snapshot that fails found
\* no file, or its source moved or another run was at work; what dead runs left in
\* the store or beside the manifests hinders none.
THEOREM FailuresHaveACause == Spec => []FailsForACause
<1>1. TruthOK => FailsForACause
  BY DEF TruthOK
<1> QED BY <1>1, SnapshotTruth, PTL

===============================================================================
