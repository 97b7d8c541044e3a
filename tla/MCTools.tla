-------------------------------- MODULE MCTools --------------------------------
(***************************************************************************)
(* The tools of a run and the sandbox they work in, on small instances.    *)
(* The parts share no state in these models, so one of them moves (focus)  *)
(* while the others rest in an initial state.                              *)
(***************************************************************************)
EXTENDS Integers, Sequences, FiniteSets

VARIABLES
  focus,
  job,
  boot, reg, tcall, used, tcancelled,
  backend, entry, alive, files, made, sreq, sweep, failedStarts,
  port, fs, edit, done, ops

toolVars == <<boot, reg, tcall, used, tcancelled>>
sandVars == <<backend, entry, alive, files, made, sreq, sweep, failedStarts>>
fileVars == <<port, fs, edit, done, ops>>
vars == <<focus, job, toolVars, sandVars, fileVars>>

T == INSTANCE ToolText WITH MaxBytes <- 7, Page <- 5, SpillCap <- 9, KeepHead <- 4, KeepTail <- 2,
       Chars <- {"a", "b"}, MaxGlob <- 4, MaxPath <- 3, RowSizes <- {2, 3, 5}, MaxRows <- 5, ResultCap <- 12
R == INSTANCE ToolRegistry WITH Calls <- {"c1", "c2"}, Caps <- {0, 1}, DefaultCap <- 1
S == INSTANCE Sandbox WITH Reqs <- {"r1", "r2", "r3"}, MaxContainers <- 3, MaxFailedStarts <- 1
F == INSTANCE FileTools WITH Names <- {"a", "b"}, Depth <- 3, Edits <- {"e1"}, MaxOps <- 1

Init ==
  /\ focus \in {"text", "registry", "sandbox", "files"}
  /\ T!ToolTextInit
  /\ R!ToolsInit /\ (focus # "registry" => boot = CHOOSE b \in R!Builds : TRUE)
  /\ S!SandInit /\ (focus # "sandbox" => backend = "docker")
  /\ F!FilesInit /\ (focus # "files" => port = "docker" /\ fs = CHOOSE f \in F!Trees : TRUE)

Only(f, step) == focus = f /\ step /\ UNCHANGED focus

TextStep == Only("text", T!ToolTextNext) /\ UNCHANGED <<toolVars, sandVars, fileVars>>
RegistryStep(step) == Only("registry", step) /\ UNCHANGED <<job, sandVars, fileVars>>
SandboxStep(step) == Only("sandbox", step) /\ UNCHANGED <<job, toolVars, fileVars>>
FileStep == Only("files", F!FilesNext) /\ UNCHANGED <<job, toolVars, sandVars>>

Next == TextStep \/ RegistryStep(R!ToolsNext) \/ SandboxStep(S!SandNext) \/ FileStep

\* A tool call that got its slot returns, time passes and the sweep is a job
\* of the leader's scheduler.
Fairness ==
  /\ \A c \in {"c1", "c2"} : WF_vars(RegistryStep(R!CallStep(c)))
  /\ WF_vars(SandboxStep(S!GraceEnds)) /\ WF_vars(SandboxStep(S!Sweep))

Spec == Init /\ [][Next]_vars /\ Fairness

\* The text algorithms meet their reference definitions: a reader that follows
\* the page markers sees the whole file, a spilled result can be read back, a
\* glob means its segments, the longest prefix of rows is kept, a section holds
\* its subsections, and the schema screen accepts what each keyword admits.
TextToolsExact ==
  /\ T!PagesReachTheEnd /\ T!SpillLosesNothing /\ T!GlobMeansSegments /\ T!LongestPrefixKept
  /\ T!SectionHoldsItsSubsections /\ T!ScreenIsExact

\* Neither a scheduled run nor a subagent it spawns executes a tool outside the
\* run's whitelist, replacing a stopped sandbox keeps the session's files, and the
\* parents of what a file tool leaves are directories.
ToolsConfined ==
  /\ R!ToolsTypeOK /\ R!WhitelistConfines
  /\ S!SandTypeOK /\ S!ResumeKeepsFiles
  /\ F!FilesTypeOK

\* move_file loses no file, whether it succeeds, fails or breaks off, on either backend.
MoveLosesNothing == F!MoveLosesNothing

\* Every dispatched call is answered although a spawn call keeps its slot while
\* its subagent's calls run, and a stopped container does not outlive its grace.
ToolsSettle == R!CallsReturn /\ S!EndedIsReaped

\* "Ensure returns a running sandbox for the session": a run keeps the container
\* it was given until it ends.
RunKeepsItsSandbox == S!RunKeepsItsSandbox

\* delete_file on a directory "requires recursive=true".
DirectoryNeedsRecursive == F!DirectoryNeedsRecursive
=============================================================================
