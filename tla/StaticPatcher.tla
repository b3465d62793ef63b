--------------------------- MODULE StaticPatcher ---------------------------
(***************************************************************************)
(* The static patcher, src/scripts/patch_agy.py, run by the agy wrapper of *)
(* src/skills/agy-compat/SKILL.md before every start of the binary, while  *)
(* the binary updates itself, launches overlap and any of them may be      *)
(* killed or run out of disk space.                                        *)
(*                                                                         *)
(* A file is two pieces: the head, with the ELF header and the function    *)
(* that refuses to run on a processor without AES, and the tail, with Go's *)
(* table of required features.  An update puts a new inode in place; inode *)
(* v holds build v.  Reading a file or writing a piece is one step.        *)
(***************************************************************************)
EXTENDS Integers, FiniteSets

CONSTANTS
  Launcher,
  Versions,    \* the binary updates itself to build 2, then 3 ...
  Histories,   \* what the builds may be like
  MaxLaunches, \* starts of the binary, all launchers together
  MaxFaults,   \* launches that are killed or run out of space
  Nothing

Gates == {"bit18", "mask", "short", "byte", "options", "unknown"}
Patterns == 1 .. 5   \* EPILOGUES; 4 is how 1 to 3 end, and 5 how 4 ends

\* The pieces of a file, each of one build: the epilogue that the check jumps to, or
\* 0, and the table's flag.
Head == [v : 1 .. Versions, jump : 0 .. 5]
Tail == [v : 1 .. Versions, required : BOOLEAN]
File == [head : Head \cup {Nothing}, tail : Tail \cup {Nothing}]

ASSUME PatcherAssumption ==
  /\ Versions \in Nat \ {0} /\ MaxLaunches \in Nat /\ MaxFaults \in Nat
  /\ Nothing \notin Head \cup Tail \cup File
  /\ \A h \in Histories : h \in [1 .. Versions -> [gate : Gates, near : SUBSET Patterns]]

VARIABLES
  build,   \* of each version: its gate, and the epilogues within 1500 bytes of it
  disk,    \* the content of each inode of agy.real
  ino,     \* the inode in place
  bak,     \* agy.real.bak
  marked, newer, \* the marker exists; agy.real -nt the marker
  staged,  \* a downloaded update: "none", or whether it is newer than the marker
  phase,   \* what each launcher does
  mem, fd, \* its binary_data, and the inode it has open or runs
  launches, faults,
  overlapped, \* history: two launchers were in the patcher at once
  raced       \* history: an update crossed a launch

patcherVars == <<build, disk, ino, bak, marked, newer, staged, phase, mem, fd,
                 launches, faults, overlapped, raced>>

-----------------------------------------------------------------------------
(* Files *)

Empty == [head |-> Nothing, tail |-> Nothing]
Fresh(v) == [head |-> [v |-> v, jump |-> 0], tail |-> [v |-> v, required |-> TRUE]]

Whole(f) == f.head # Nothing /\ f.tail # Nothing /\ f.head.v = f.tail.v

-----------------------------------------------------------------------------
(* The patch *)

\* The forms of the check that each of SIGNATURES matches, in their order.
Signatures == <<{"bit18"}, {"bit18", "mask"}, {"short"}, {"byte"}>>
\* ALREADY_PATCHED_SIGS know the TEST of EAX only.
Recognised == {"bit18", "mask", "short"}

\* Fault: the last of EPILOGUES that is there.
FindLast(near) == IF near = {} THEN 0 ELSE CHOOSE i \in near : \A j \in near : j <= i

\* Fault: -1, none, is not tested for.
FindUntested(near) == IF near = {} THEN -1 ELSE CHOOSE i \in near : \A j \in near : i <= j

\* _find_epilogue: the first of EPILOGUES that is there, wherever it is; 0 if none.
FindEpilogue(near) == IF near = {} THEN 0 ELSE CHOOSE i \in near : \A j \in near : i <= j

AlreadyPatched(f) == f.head.jump # 0 /\ build[f.head.v].gate \in Recognised

\* execute_signature_patch
SignaturePatch(f) ==
  LET b == build[f.head.v] IN
  IF f.head.jump = 0 /\ \E i \in DOMAIN Signatures : b.gate \in Signatures[i]
    THEN [f EXCEPT !.head.jump = FindEpilogue(b.near)]
    ELSE f

\* execute_legacy_patch: the entries of the table, where Go still has one.
LegacyPatch(f) ==
  IF Whole(f) /\ build[f.head.v].gate = "options"
    THEN [f EXCEPT !.tail.required = FALSE] ELSE f

\* binary_data after run_patch: unchanged if there is nothing to do.
PatchOf(f) ==
  IF AlreadyPatched(f) THEN f
  ELSE IF SignaturePatch(f) # f THEN SignaturePatch(f) ELSE LegacyPatch(f)

-----------------------------------------------------------------------------
(* The wrapper and the patcher *)

PatcherInit ==
  /\ build \in Histories
  /\ disk = [v \in 1 .. Versions |-> Fresh(v)] /\ ino = 1
  /\ bak = Nothing
  /\ marked = FALSE /\ newer = FALSE /\ staged = "none"
  /\ phase = [p \in Launcher |-> "idle"]
  /\ mem = [p \in Launcher |-> Empty] /\ fd = [p \in Launcher |-> 0]
  /\ launches = 0 /\ faults = 0 /\ overlapped = FALSE /\ raced = FALSE

Real == disk[ino]
Move(p, where) == phase' = [phase EXCEPT ![p] = where]

Patching(p) ==
  phase[p] \in {"read", "backup", "copy", "copying", "open", "head", "tail", "touch"}
Launching(p) == Patching(p) \/ phase[p] = "exec"
Writing(i) == \E p \in Launcher : phase[p] \in {"head", "tail"} /\ fd[p] = i
Running(i) == \E p \in Launcher : phase[p] = "running" /\ fd[p] = i

\* if [ ! -f "$MARKER" ] || [ "$REAL" -nt "$MARKER" ]
Launch(p) ==
  /\ phase[p] = "idle" /\ launches < MaxLaunches
  /\ launches' = launches + 1
  /\ IF marked /\ ~newer
       THEN Move(p, "exec") /\ UNCHANGED overlapped
       ELSE /\ Move(p, "read")
            /\ overlapped' = (overlapped \/ \E q \in Launcher : Patching(q))
  /\ UNCHANGED <<build, disk, ino, bak, marked, newer, staged, mem, fd, faults, raced>>

\* Fault: touch whatever the patcher's exit status is.
AfterErrorTouch == "touch"

\* Where an error, exit status 1, leads: past the touch.
AfterError == "exec"

\* __init__ and the two scans; a file without header is not ELF.
Read(p) ==
  /\ phase[p] = "read"
  /\ IF Real.head = Nothing THEN Move(p, AfterError) /\ UNCHANGED mem
     ELSE IF PatchOf(Real) = Real THEN Move(p, "touch") /\ UNCHANGED mem
     ELSE Move(p, "backup") /\ mem' = [mem EXCEPT ![p] = PatchOf(Real)]
  /\ UNCHANGED <<build, disk, ino, bak, marked, newer, staged, fd,
                 launches, faults, overlapped, raced>>

\* Fault: no backup.
NeverBackup == FALSE

\* not os.path.exists(backup)
NeedsBackup == bak = Nothing

Backup(p) ==
  /\ phase[p] = "backup"
  /\ Move(p, IF NeedsBackup THEN "copy" ELSE "open")
  /\ UNCHANGED <<build, disk, ino, bak, marked, newer, staged, mem, fd,
                 launches, faults, overlapped, raced>>

\* shutil.copy2 opens both files,
CopyOpen(p) ==
  /\ phase[p] = "copy"
  /\ Move(p, "copying") /\ fd' = [fd EXCEPT ![p] = ino] /\ bak' = Empty
  /\ UNCHANGED <<build, disk, ino, marked, newer, staged, mem,
                 launches, faults, overlapped, raced>>

\* then copies what the file holds now, not binary_data.
CopyOf(p) == disk[fd[p]]

Copy(p) ==
  /\ phase[p] = "copying"
  /\ Move(p, "open") /\ bak' = CopyOf(p)
  /\ UNCHANGED <<build, disk, ino, marked, newer, staged, mem, fd,
                 launches, faults, overlapped, raced>>

\* open(target, 'wb') truncates, unless the file is being executed.
OpenTarget(p) ==
  /\ phase[p] = "open"
  /\ IF Running(ino)
       THEN Move(p, AfterError) /\ UNCHANGED <<disk, newer, fd>>
       ELSE /\ Move(p, "head") /\ fd' = [fd EXCEPT ![p] = ino]
            /\ disk' = [disk EXCEPT ![ino] = Empty] /\ newer' = TRUE
  /\ UNCHANGED <<build, ino, bak, marked, staged, mem, launches, faults, overlapped, raced>>

\* The inode may have been replaced since it was opened.
Write(p, piece) ==
  /\ disk' = [disk EXCEPT ![fd[p]] = [@ EXCEPT ![piece] = mem[p][piece]]]
  /\ newer' = (newer \/ fd[p] = ino)
  /\ UNCHANGED <<build, ino, bak, marked, staged, mem, fd,
                 launches, faults, overlapped, raced>>

WriteHead(p) == phase[p] = "head" /\ Write(p, "head") /\ Move(p, "tail")
WriteTail(p) == phase[p] = "tail" /\ Write(p, "tail") /\ Move(p, "touch")

\* && touch "$MARKER"
Touch(p) ==
  /\ phase[p] = "touch"
  /\ Move(p, "exec") /\ marked' = TRUE /\ newer' = FALSE
  /\ staged' = IF staged = "none" THEN "none" ELSE "older"
  /\ UNCHANGED <<build, disk, ino, bak, mem, fd, launches, faults, overlapped, raced>>

\* The check is gone, and the jump goes to an epilogue that frees its frame: pattern
\* 1, or 4 where rax is not pushed.
Frame(gate) == IF gate = "short" THEN 4 ELSE 1
Ungated(f) ==
  LET b == build[f.head.v] IN
  IF b.gate = "options" THEN ~f.tail.required ELSE f.head.jump = Frame(b.gate)
Runs(f) == Whole(f) /\ Ungated(f)

\* exec "$REAL": not while it is open for writing.
Exec(p) ==
  /\ phase[p] = "exec"
  /\ fd' = [fd EXCEPT ![p] = ino]
  /\ Move(p, IF Writing(ino) THEN "idle" ELSE IF Runs(Real) THEN "running" ELSE "failed")
  /\ UNCHANGED <<build, disk, ino, bak, marked, newer, staged, mem,
                 launches, faults, overlapped, raced>>

\* The binary ends, or its failure is noticed.
Quit(p) ==
  /\ phase[p] \in {"running", "failed"}
  /\ Move(p, "idle")
  /\ UNCHANGED <<build, disk, ino, bak, marked, newer, staged, mem, fd,
                 launches, faults, overlapped, raced>>

\* A signal ends wrapper and patcher, wherever they are.
Kill(p) ==
  /\ Launching(p) /\ faults < MaxFaults
  /\ faults' = faults + 1 /\ Move(p, "idle")
  /\ UNCHANGED <<build, disk, ino, bak, marked, newer, staged, mem, fd,
                 launches, overlapped, raced>>

\* No space: an exception in the middle of a copy or a write.
Fail(p) ==
  /\ phase[p] \in {"copying", "head", "tail"} /\ faults < MaxFaults
  /\ faults' = faults + 1 /\ Move(p, AfterError)
  /\ UNCHANGED <<build, disk, ino, bak, marked, newer, staged, mem, fd,
                 launches, overlapped, raced>>

-----------------------------------------------------------------------------
(* Self-update: a download, which is renamed and keeps its mtime *)

Download ==
  /\ staged = "none" /\ ino < Versions
  /\ staged' = "newer"
  /\ UNCHANGED <<build, disk, ino, bak, marked, newer, phase, mem, fd,
                 launches, faults, overlapped, raced>>

Replace ==
  /\ staged # "none"
  /\ ino' = ino + 1 /\ newer' = (staged = "newer") /\ staged' = "none"
  /\ raced' = (raced \/ staged = "older" \/ \E p \in Launcher : Launching(p))
  /\ UNCHANGED <<build, disk, bak, marked, phase, mem, fd, launches, faults, overlapped>>

Patcher(p) ==
  \/ Read(p) \/ Backup(p) \/ CopyOpen(p) \/ Copy(p) \/ OpenTarget(p)
  \/ WriteHead(p) \/ WriteTail(p)

PatcherNext ==
  \/ \E p \in Launcher : \/ Launch(p) \/ Patcher(p) \/ Touch(p) \/ Exec(p) \/ Quit(p)
                         \/ Kill(p) \/ Fail(p)
  \/ Download \/ Replace

PatcherSpec == PatcherInit /\ [][PatcherNext]_patcherVars

-----------------------------------------------------------------------------
(* Properties *)

Phases == {"idle", "read", "backup", "copy", "copying", "open", "head", "tail", "touch",
           "exec", "running", "failed"}

\* Types.
PatcherTypeOK ==
  /\ build \in Histories
  /\ disk \in [1 .. Versions -> File] /\ ino \in 1 .. Versions
  /\ bak \in File \cup {Nothing}
  /\ marked \in BOOLEAN /\ newer \in BOOLEAN /\ staged \in {"none", "newer", "older"}
  /\ phase \in [Launcher -> Phases]
  /\ mem \in [Launcher -> File] /\ fd \in [Launcher -> 0 .. Versions]
  /\ launches \in 0 .. MaxLaunches /\ faults \in 0 .. MaxFaults
  /\ overlapped \in BOOLEAN /\ raced \in BOOLEAN

\* The builds that the patcher promises to serve: the table, or a check whose
\* epilogue is near and not hidden by a longer one that is tried before it.
Served(v) ==
  LET b == build[v] IN
  \/ b.gate = "options"
  \/ b.gate \in {"bit18", "mask", "byte"} /\ 1 \in b.near
  \/ b.gate = "short" /\ 4 \in b.near /\ b.near \cap {1, 2, 3} = {}

\* A marker that keeps the patcher from running again stands for a binary that
\* runs, though launches overlap, unless an update crossed one.  After a launch
\* that was cut short it may stand for a file that is cut, but never for a build
\* that has yet to be patched.
MarkerIsTrue ==
  marked /\ ~newer /\ ~Writing(ino) /\ ~raced /\ Served(ino) =>
    Runs(Real) \/ (faults > 0 /\ ~Whole(Real))

\* A launch of a binary that the patcher serves starts the build installed last, or
\* finds it open for writing.
LaunchRunsTheLatest ==
  \A p \in Launcher :
    /\ phase[p] = "running" /\ ~raced => disk[fd[p]].head.v = fd[p]
    /\ phase[p] = "failed" => raced \/ faults > 0 \/ ~Served(fd[p])

\* "The original binary is saved as agy.real.bak before any changes are made"
\* (docs/LEARNING_GUIDE.md): as soon as a build is rewritten or only truncated, by
\* launches one at a time, the backup is the whole original of the first build ever
\* rewritten.  It is an earlier build's, never rewritten, only where an update crossed
\* a launch or a launch was cut short, and cut itself only where a launch was cut
\* short.  What the line does not hold for is a later build: its own original is not
\* saved, since there is a backup already (if not os.path.exists).
Rewritten == {v \in 1 .. Versions : disk[v] # Fresh(v)}

FirstOriginalIsKept ==
  ~overlapped => \A w \in Rewritten :
    \/ \E v \in 1 .. w : bak = Fresh(v) /\ (v \in Rewritten \/ raced \/ faults > 0)
    \/ bak = Empty /\ faults > 0

\* If one launch is killed or runs out of space, the binary or its backup is whole
\* still, although the backup may be of an earlier build.
OneFaultLosesNothing ==
  ~overlapped /\ faults <= 1 /\ ~Writing(ino) => Whole(Real) \/ (bak # Nothing /\ Whole(bak))
=============================================================================
