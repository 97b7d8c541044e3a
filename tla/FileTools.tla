------------------------------- MODULE FileTools -------------------------------
(***************************************************************************)
(* The workspace tools over the two production ports (builtin/files.go,    *)
(* edit.go, fsops.go; sandbox/local.go, docker.go).  A file's content is   *)
(* its text and the edits made to it; an edit replaces its fragment by     *)
(* reading the whole file and writing it back.  resolve confines every     *)
(* path to the workspace tree, which is all there is here.                 *)
(***************************************************************************)
EXTENDS Integers, Sequences, SequencesExt

CONSTANTS
  Names,     \* file names
  Depth,     \* longest path
  Edits,     \* edit_file calls that may run at the same time
  MaxOps     \* bound on the other calls

Paths == UNION {[1..n -> Names] : n \in 1..Depth}
None == {"none"}
Dir == {"dir"}
Text == {"text"}                 \* a file nobody edited; {} is an empty file
OtherText == Text \cup {"other"}  \* and another, with the same fragment
Contents == {{}} \cup {Text \cup es : es \in SUBSET (Edits \cup {"other"})}
Matches(e, c) == Text \subseteq c /\ e \notin c

VARIABLES
  port,       \* "local" or "docker"
  fs,         \* path -> None, Dir or a content
  edit,       \* edit -> [at, path, saw]
  done,       \* what the last tool call did: [op, src, dst, ok]
  ops         \* how many calls changed the tree

fileVars == <<port, fs, edit, done, ops>>

IsFile(f, p) == f[p] \notin {None, Dir}
Exists(f, p) == f[p] # None
Parent(p) == Front(p)
Within(p, d) == IsPrefix(d, p)
Ancestors(p) == {SubSeq(p, 1, n) : n \in 1..Len(p) - 1}
Idle == [at |-> "idle", path |-> <<>>, saw |-> {}]
Nothing == [op |-> "none", src |-> <<>>, dst |-> <<>>, ok |-> FALSE]
Did(op, src, dst, ok) ==
  /\ ops' = ops + 1
  /\ done' = [op |-> op, src |-> src, dst |-> dst, ok |-> ok]

FilesTypeOK ==
  /\ port \in {"local", "docker"}
  /\ fs \in [Paths -> {None, Dir} \cup Contents]
  /\ \A p \in Paths : Exists(fs, p) => \A a \in Ancestors(p) : fs[a] = Dir
  /\ \A e \in Edits : edit[e].at \in {"idle", "read", "edited", "failed"}
  /\ done.ok \in BOOLEAN /\ ops \in 0..MaxOps

\* Where the runs start: a directory d of two files; and f, a file, or a directory with a
\* d of its own, where a copy of d meets a file, and perhaps a directory in a file's place.
Tree(d, f, top, met) ==
  [p \in Paths |->
     IF p = <<f>> THEN top
     ELSE IF p = <<d>> \/ (p = <<f, d>> /\ top = Dir) THEN Dir
     ELSE IF p \in {<<d, d>>, <<d, f>>} THEN Text
     ELSE IF p = <<f, d, f>> /\ top = Dir THEN OtherText
     ELSE IF p = <<f, d, d>> /\ top = Dir THEN met ELSE None]
Trees == {Tree(x[1][1], x[1][2], x[2], x[3]) :
            x \in {n \in Names \X Names : n[1] # n[2]} \X {Dir, Text} \X {None, Dir, OtherText}}

FilesInit ==
  /\ port \in {"local", "docker"} /\ fs \in Trees
  /\ edit = [e \in Edits |-> Idle]
  /\ done = Nothing /\ ops = 0

\* MkdirAll / mkdir -p: possible unless a file is in the way.
CanMkdir(f, p) == \A a \in Ancestors(p) \cup {p} : ~IsFile(f, a)
MkdirAll(f, p) == [q \in Paths |-> IF q \in Ancestors(p) \cup {p} THEN Dir ELSE f[q]]
CanPrepare(f, p) == Parent(p) = <<>> \/ CanMkdir(f, Parent(p))
Prepare(f, p) == IF Parent(p) = <<>> THEN f ELSE MkdirAll(f, Parent(p))

\* The tree that src is, where its paths go below to, and what may be laid down there:
\* the paths of P, of which the file in T was cut short.  Paths past the bound are not offered.
Source(f, src) == {p \in Paths : Within(p, src) /\ Exists(f, p)}
Place(src, to, p) == to \o SubSeq(p, Len(src) + 1, Len(p))
Fits(f, src, to) == \A p \in Source(f, src) : Place(src, to, p) \in Paths
Lay(f, src, to, P, T) ==
  [q \in Paths |-> LET p == Place(to, src, q) IN
     IF Within(q, to) /\ p \in P THEN (IF p \in T THEN {} ELSE f[p]) ELSE f[q]]
Closed(S) == {P \in SUBSET S : \A p \in P : \A a \in Ancestors(p) \cap S : a \in P}

Cut(f, p) == [q \in Paths |-> IF Within(q, p) THEN None ELSE f[q]]
Empty(f, d) == \A p \in Paths : Within(p, d) /\ p # d => ~Exists(f, p)

\* rename(2): a directory replaces an empty directory only, a file a file.
CanRename(f, src, dst) ==
  /\ Exists(f, src) /\ ~(Within(dst, src) /\ dst # src)
  /\ \/ ~Exists(f, dst) \/ src = dst
     \/ IsFile(f, src) /\ IsFile(f, dst)
     \/ f[src] = Dir /\ f[dst] = Dir /\ Empty(f, dst)
Rename(f, src, dst) == IF src = dst THEN f ELSE Cut(Lay(Cut(f, dst), src, dst, Source(f, src), {}), src)

\* cp -a and LocalPort.Copy: a directory and a file in each other's place do not mix.
Clash(f, src, to, p) ==
  LET q == Place(src, to, p) IN Exists(f, q) /\ (f[p] = Dir) # (f[q] = Dir)
CanLay(f, src, to) == Exists(f, src) /\ \A p \in Source(f, src) : ~Clash(f, src, to, p)

\* What a copy leaves that fails: it goes path by path, skips or stops at the one it
\* cannot lay down, and the disk may fill, or the process end, at any of them.
BrokenOff(f, src, to) ==
  LET S == Source(f, src)
  IN  {Lay(f, src, to, PT[1], PT[2]) :
         PT \in {x \in Closed({p \in S : \A a \in (Ancestors(p) \cup {p}) \cap S : ~Clash(f, src, to, a)})
                       \X ({{}} \cup {{p} : p \in {s \in S : IsFile(f, s)}}) : x[2] \subseteq x[1]}}

\* cp -a copies into dst when dst is a directory; it refuses to copy a file onto
\* itself, at once, and a directory into itself, when it meets it.
CopyTarget(f, src, dst) == IF f[dst] = Dir THEN Append(dst, Last(src)) ELSE dst
CanCp(f, src, to) == CanLay(f, src, to) /\ ~Within(to, src)
CpFails(f, src, to) == IF to = src THEN {f} ELSE BrokenOff(f, src, to)
Target(f, src, dst) == IF port = "docker" THEN CopyTarget(f, src, dst) ELSE dst
Offered(f, src, dst) ==
  /\ Target(f, src, dst) \in Paths
  /\ Fits(IF CanPrepare(f, dst) THEN Prepare(f, dst) ELSE f, src, Target(f, src, dst))

Failed(trees) == {[tree |-> f, ok |-> FALSE] : f \in trees}
Succeeded(tree) == {[tree |-> tree, ok |-> TRUE]}

\* What rm -rf leaves that fails: some paths, and the directories above them.
Removing(f, src) ==
  {[q \in Paths |-> IF Within(q, src) /\ q \notin K THEN None ELSE f[q]] : K \in Closed(Source(f, src)) \ {{}}}

(* move_file: LocalPort.Move, DockerPort.Move (mkdir -p && cp -a && rm -rf) *)
MovedUnchained(f, src, to) ==
  {[tree |-> Cut(g, src), ok |-> TRUE] : g \in CpFails(f, src, to)}
MovedDocker(f, src, to) ==
  LET all == Lay(f, src, to, Source(f, src), {})
  IN  Failed(CpFails(f, src, to))
        \cup (IF CanCp(f, src, to) THEN Succeeded(Cut(all, src)) \cup Failed(Removing(all, src)) ELSE {})

Move(src, dst) ==
  /\ Offered(fs, src, dst)
  /\ LET f == Prepare(fs, dst)
     IN  \E r \in IF ~CanPrepare(fs, dst) THEN Failed({fs})
                  ELSE IF port = "docker" THEN MovedDocker(f, src, CopyTarget(fs, src, dst))
                  ELSE IF CanRename(f, src, dst) THEN Succeeded(Rename(f, src, dst)) ELSE Failed({f}) :
           fs' = r.tree /\ Did("move", src, dst, r.ok)
  /\ UNCHANGED <<port, edit>>

\* copy_file: LocalPort.Copy (copyFile truncates dst before it reads src; a
\* directory is not copied into itself here, where the walk meets its own
\* output) and DockerPort.Copy.
CopiedLocal(f, src, dst) ==
  IF src = dst /\ IsFile(f, src) THEN Succeeded([f EXCEPT ![src] = {}])
  ELSE Failed(BrokenOff(f, src, dst))
         \cup (IF CanLay(f, src, dst) THEN Succeeded(Lay(f, src, dst, Source(f, src), {})) ELSE {})
CopiedDocker(f, src, to) ==
  Failed(CpFails(f, src, to))
    \cup (IF CanCp(f, src, to) THEN Succeeded(Lay(f, src, to, Source(f, src), {})) ELSE {})

Copy(src, dst) ==
  /\ Offered(fs, src, dst) /\ ~(fs[src] = Dir /\ Within(dst, src))
  /\ \E r \in IF ~CanPrepare(fs, dst) THEN Failed({fs})
             ELSE IF port = "docker" THEN CopiedDocker(Prepare(fs, dst), src, CopyTarget(fs, src, dst))
             ELSE IF Exists(fs, src) THEN CopiedLocal(Prepare(fs, dst), src, dst) ELSE Failed({fs}) :
       fs' = r.tree /\ Did("copy", src, dst, r.ok)
  /\ UNCHANGED <<port, edit>>

\* ReadFile opens a directory without an error: os.Open on the local port, the
\* directory's own tar header on the docker port.
ReadFileSucceeds(p) == Exists(fs, p)

(* delete_file *)
DeleteFile(p, recursive) ==
  LET allowed == ReadFileSucceeds(p) \/ recursive
  IN  /\ fs' = IF allowed THEN Cut(fs, p) ELSE fs
      /\ Did(IF recursive THEN "rmtree" ELSE "delete", p, <<>>, allowed)
      /\ UNCHANGED <<port, edit>>

MakeDir(p) ==
  /\ fs' = IF CanMkdir(fs, p) THEN MkdirAll(fs, p) ELSE fs
  /\ Did("mkdir", p, <<>>, CanMkdir(fs, p)) /\ UNCHANGED <<port, edit>>

WriteFile(p) ==
  LET can == CanPrepare(fs, p) /\ fs[p] # Dir
  IN  /\ fs' = IF can THEN [Prepare(fs, p) EXCEPT ![p] = Text] ELSE fs
      /\ Did("write", p, <<>>, can) /\ UNCHANGED <<port, edit>>

\* edit_file reads the file and looks for the fragment ...
EditRead(e, p) ==
  /\ edit[e].at = "idle"
  /\ edit' = [edit EXCEPT ![e] =
       IF IsFile(fs, p) /\ Matches(e, fs[p]) THEN [at |-> "read", path |-> p, saw |-> fs[p]]
       ELSE [Idle EXCEPT !.at = "failed"]]
  /\ done' = Nothing /\ UNCHANGED <<port, fs, ops>>

\* ... and writes what it read, with the fragment replaced.
EditWrite(e) ==
  LET p == edit[e].path
      can == CanPrepare(fs, p) /\ fs[p] # Dir
  IN  /\ edit[e].at = "read"
      /\ fs' = IF can THEN [Prepare(fs, p) EXCEPT ![p] = edit[e].saw \cup {e}] ELSE fs
      /\ edit' = [edit EXCEPT ![e] = [Idle EXCEPT !.at = IF can THEN "edited" ELSE "failed",
                                                  !.path = IF can THEN p ELSE <<>>]]
      /\ done' = [op |-> "edit", src |-> p, dst |-> <<>>, ok |-> can] /\ UNCHANGED <<port, ops>>

FilesNext ==
  \/ ops < MaxOps /\ \E s, d \in Paths : Move(s, d) \/ Copy(s, d)
  \/ ops < MaxOps /\ \E p \in Paths : (\E r \in BOOLEAN : DeleteFile(p, r)) \/ MakeDir(p) \/ WriteFile(p)
  \/ \E e \in Edits : (\E p \in Paths : EditRead(e, p)) \/ EditWrite(e)

FilesSpec == FilesInit /\ [][FilesNext]_fileVars

Moved == done'.op = "move"
PlaceOf(p) == Place(done'.src, Target(fs, done'.src, done'.dst), p)
Sources == {s \in Paths : IsFile(fs, s) /\ Within(s, done'.src)}

\* The copy lands on a directory that holds the source.
OntoParent == LET to == Target(fs, done'.src, done'.dst) IN Within(done'.src, to) /\ done'.src # to

\* A file is kept by a move where it was or in its new place, unless a file of the source
\* was to take its place: then it is replaced, or the move broke off on the way.
KeptByMove(p) ==
  \/ fs'[p] = fs[p]
  \/ p \in Sources /\ fs'[PlaceOf(p)] = fs[p]
  \/ \E s \in Sources \ {p} : PlaceOf(s) = p /\ (done'.ok => fs'[p] = fs[s])

\* A move loses no file, whether it succeeds, fails, or breaks off while it copies or
\* removes.  Not said of a docker move onto a directory that holds the source, see below.
MoveLosesNothing ==
  [][Moved /\ ~OntoParent => \A p \in Paths : IsFile(fs, p) => KeptByMove(p)]_fileVars

\* The same without that exception.  Violated: moving a/b/b into a lays a/b/b over a/b,
\* a/b/b/b/y lands on a/b/b/y, and rm -rf a/b/b then removes it; the move is reported done.
\* It takes paths of five names to see.
MoveOntoParentLosesNothing ==
  [][Moved => \A p \in Paths : IsFile(fs, p) => KeptByMove(p)]_fileVars

\* A move that fails changes no file.  Violated on docker: cp -a has overwritten what it
\* reached before it failed.
FailedMoveChangesNoFile ==
  [][Moved /\ ~done'.ok => \A p \in Paths : IsFile(fs, p) => fs'[p] = fs[p]]_fileVars

\* "Deleting a directory removes everything under it and requires
\* recursive=true": delete_file without the flag never empties a directory.
\* Violated: both ports open a directory like a file.
DirectoryNeedsRecursive ==
  [][done'.op = "delete" => \A p \in Paths : fs'[p] # fs[p] => p = done'.src /\ IsFile(fs, p)]_fileVars

\* An edit that was reported as done is in the file until another tool call
\* replaces the file: two edits of one batch do not undo each other.  Violated:
\* each reads the file, edits the text and writes it back.
EditsAddUp ==
  [][done'.op = "edit" /\ done'.ok => \A e \in Edits :
       edit[e].at = "edited" /\ edit[e].path = done'.src /\ IsFile(fs, done'.src) /\ e \in fs[done'.src]
         => e \in fs'[done'.src]]_fileVars
=============================================================================
