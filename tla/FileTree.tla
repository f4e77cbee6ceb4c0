------------------------------- MODULE FileTree -------------------------------
(***************************************************************************)
(* The file system calls rux-ml makes, with what they do on POSIX when     *)
(* processes share paths and die between two calls:                        *)
(*   - open(path, "w") creates the file or empties the one that is there;  *)
(*   - write puts a whole value in the opened file, wherever it is linked  *)
(*     by then; over bytes somebody else wrote, the longer of the two may  *)
(*     show through;                                                       *)
(*   - os.replace moves a file over another in one step.                   *)
(* A file is known by the path it is linked at, so a handle is a path and  *)
(* a rename carries the handles along.                                     *)
(***************************************************************************)
CONSTANTS
  Paths, Values, Procs,
  Absent,     \* there is no such file
  Empty,      \* created or truncated, nothing written
  Torn,       \* bytes of two writers
  Unlinked    \* handle of no path: closed, or the file was replaced

\* What an instance has to provide.
Distinct ==
  /\ {Absent, Empty, Torn} \cap Values = {} /\ Unlinked \notin Paths
  /\ Absent # Empty /\ Absent # Torn /\ Empty # Torn

VARIABLES
  content,    \* what each path holds
  handle      \* the file each process has open for writing

FilesInit ==
  /\ content = [f \in Paths |-> Absent]
  /\ handle = [p \in Procs |-> Unlinked]

Exists(f) == content[f] # Absent

Readable(f) == content[f] \in Values

Open(p, f) ==
  /\ content' = [content EXCEPT ![f] = Empty]
  /\ handle' = [handle EXCEPT ![p] = f]

\* What a file may hold after v is written over c.
Overwritten(c, v) == IF c = Empty THEN {v} ELSE {v, Torn}

Write(p, v) ==
  /\ IF handle[p] = Unlinked THEN UNCHANGED content
     ELSE \E c \in Overwritten(content[handle[p]], v) :
            content' = [content EXCEPT ![handle[p]] = c]
  /\ handle' = [handle EXCEPT ![p] = Unlinked]

Replace(src, dst) ==
  /\ Exists(src)
  /\ content' = [content EXCEPT ![dst] = content[src], ![src] = Absent]
  /\ handle' = [p \in Procs |-> IF handle[p] = src THEN dst
                                ELSE IF handle[p] = dst THEN Unlinked
                                ELSE handle[p]]

\* The process is gone and its handle with it; the files stay.
CloseAll(p) == handle' = [handle EXCEPT ![p] = Unlinked] /\ UNCHANGED content
=============================================================================
