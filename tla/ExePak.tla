-------------------------------- MODULE ExePak --------------------------------
(***************************************************************************)
(* The packer exepak (packers/exepak-1.5): one executable is packed and     *)
(* unpacked in place by the exepak command, and packed ones are run, by the *)
(* stub (stub.s, the one the Makefile builds) that unpacks them into a      *)
(* directory under /tmp, executes the result and leaves a process behind    *)
(* that removes it a second later.                                          *)
(*                                                                          *)
(* Contents are sequences of blocks, of a packed file those that can be     *)
(* unpacked; NRV2E itself is in Nrv.                                        *)
(***************************************************************************)
EXTENDS Integers, Sequences, FiniteSets

CONSTANTS
  NBlocks,   \* blocks of the program
  Runs,      \* executions of the packed program
  Names,     \* names for the stub's directory
  Tries,     \* attempts to make it
  NoRun

ASSUME ExePakAssumption ==
  /\ NBlocks \in Nat \ {0} /\ Tries \in Nat \ {0} /\ Names # {} /\ NoRun \notin Runs

VARIABLES
  file,     \* the executable: kind (plain, packed, other, absent) and blocks
  backup,   \* a file of that name with a tilde exists (an editor's backup)
  job,      \* what the exepak command does
  tmp,      \* blocks in its temporary file, or NoFile
  child,    \* the packed program it runs to unpack: "none", "write" or "done"
  pipe,     \* what is in the pipe between them
  sent,     \* blocks the child has written; 0 without one
  run,      \* per execution: pc, name, tries, image, blocks written
  cleaner,  \* per execution: whether its clean-up process is still to act
  dirs,     \* directories under /tmp: maker, owner and blocks of the file in it
  mishap,   \* one of the mishaps that break the program has happened
  litter    \* "dir": a run has left its directory for good; "cut": half a file in it

packVars == <<file, backup, job, tmp, child, pipe, sent>>
runVars == <<run, cleaner, dirs>>
vars == <<file, backup, job, tmp, child, pipe, sent, run, cleaner, dirs, mishap, litter>>

Whole == [i \in 1 .. NBlocks |-> i]
Message == 0                                   \* "exepak error", 13 bytes
Torn == NBlocks + 1                            \* part of a block
Content(k, b) == [kind |-> k, blocks |-> b]
Absent == Content("absent", <<>>)
Ruin == Content("other", <<>>)                 \* no program: empty, or an old backup
NoFile == <<-1>>
Dir(r, o, b) == [maker |-> r, owner |-> o, blocks |-> b]
NoDir == Dir(NoRun, NoRun, <<>>)
Stub(p, n, t, i, o) == [pc |-> p, name |-> n, tries |-> t, image |-> i, out |-> o]
AnyName == CHOOSE n \in Names : TRUE
IdleRun == Stub("idle", AnyName, Tries, <<>>, <<>>)

Init ==
  /\ file \in {Content("plain", Whole)} /\ backup \in BOOLEAN
  /\ job = "idle" /\ tmp = NoFile /\ child = "none" /\ pipe = <<>> /\ sent = 0
  /\ run = [r \in Runs |-> IdleRun] /\ cleaner = [r \in Runs |-> FALSE]
  /\ dirs = [n \in Names |-> NoDir]
  /\ mishap = FALSE /\ litter = {}

Mishap == mishap' = TRUE
\* What a write of b that breaks off leaves.
Cut(b) == {SubSeq(b, 1, n) : n \in 0 .. Len(b)}

------------------------------------------------------------------------------
(* create_sfx_binary *)

\* check_already_compressed: the stub's marker is in the file.
AlreadyCompressed(f) == f.kind = "packed"
\* read_headers or is_script: a program that can be executed.
IsExecutable(f) == f.kind = "plain"

\* my_rename(newfname, infile), the way back of the failure paths: nothing made
\* a copy, but a file of that name may exist.  f is what infile is without it.
RestoreBackup(f) ==
  /\ backup' = FALSE
  /\ file' = IF backup THEN Ruin ELSE f

\* The tests of the file, and the temporary one.  A program that is broken
\* already is of no interest.
CompressStart ==
  /\ job = "idle" /\ ~mishap
  /\ ~AlreadyCompressed(file) /\ IsExecutable(file)
  /\ tmp' = <<>> /\ job' = "compress"
  /\ UNCHANGED <<file, backup, child, pipe, sent, runVars, mishap, litter>>

\* fclose and unlink of the temporary file.
DropTemp == tmp' = NoFile

CompressBlock ==
  /\ job = "compress" /\ Len(tmp) < Len(file.blocks)
  /\ \/ tmp' = Append(tmp, file.blocks[Len(tmp) + 1]) /\ UNCHANGED job
     \/ DropTemp /\ job' = "idle"                     \* compressor or disk
  /\ UNCHANGED <<file, backup, child, pipe, sent, runVars, mishap, litter>>

\* fread returned 0: the end of the file, or an error, which nobody asks for
\* unless nothing has been read.  The last block may be a part.
CompressEnd ==
  /\ job = "compress"
  /\ \/ tmp # <<>> /\ job' = "size" /\ UNCHANGED tmp
     \/ tmp = <<>> /\ job' = "idle" /\ DropTemp
     \/ Len(tmp) < Len(file.blocks) /\ job' = "size" /\ tmp' = Append(tmp, Torn)
  /\ UNCHANGED <<file, backup, child, pipe, sent, runVars, mishap, litter>>

\* The command gives up; the original is still there, or a backup takes its place.
GiveUp ==
  /\ RestoreBackup(file) /\ DropTemp /\ job' = "idle"
  /\ IF backup THEN Mishap ELSE UNCHANGED mishap

\* The comparison of sizes.
CompressSize ==
  /\ job = "size"
  /\ \/ job' = "truncate" /\ UNCHANGED <<file, backup, tmp, mishap>>
     \/ GiveUp
  /\ UNCHANGED <<child, pipe, sent, runVars, litter>>

\* open(O_TRUNC) of the original, which fails while it is being executed.
Truncate ==
  /\ job = "truncate"
  /\ \/ /\ file' = Ruin /\ job' = "append" /\ UNCHANGED <<backup, tmp>>
        /\ IF tmp # Whole THEN Mishap ELSE UNCHANGED mishap
     \/ GiveUp
  /\ UNCHANGED <<child, pipe, sent, runVars, litter>>

\* append_stubfile, then the owner, mode and times of the original.  It maps the
\* temporary file, whose last bytes nobody has flushed with success.
AppendStub ==
  /\ job = "append" /\ job' = "idle" /\ DropTemp
  /\ \/ file' = Content("packed", tmp) /\ UNCHANGED <<backup, mishap>>
     \/ \E b \in Cut(tmp) :
          file' = Content("packed", b) /\ UNCHANGED backup /\ Mishap
     \/ \E f \in {file} \cup {Content("packed", b) : b \in Cut(tmp)} :
          RestoreBackup(f) /\ Mishap
  /\ UNCHANGED <<child, pipe, sent, runVars, litter>>

------------------------------------------------------------------------------
(* decompress_sfx_binary *)

\* Temporary file, pipe and fork.  A child whose execv fails goes on in the
\* parent's code, reading from the pipe it holds open itself: both wait for ever.
DecompressStart ==
  /\ job = "idle" /\ AlreadyCompressed(file)
  /\ \/ job' = "read" /\ child' = "write" /\ tmp' = <<>>
     \/ job' = "hung" /\ UNCHANGED child /\ tmp' = <<>>
  /\ UNCHANGED <<file, backup, pipe, sent, runVars, mishap, litter>>

\* The stub run with ">d" writes block after block, to the end or to one it
\* finds corrupt.
ChildWrite ==
  /\ child = "write" /\ sent < Len(file.blocks)
  /\ pipe' = Append(pipe, file.blocks[sent + 1]) /\ sent' = sent + 1
  /\ UNCHANGED <<file, backup, job, tmp, child, runVars, mishap, litter>>
ChildEnd ==
  /\ child = "write" /\ sent = Len(file.blocks) /\ child' = "done"
  /\ \/ UNCHANGED pipe
     \/ file.blocks # Whole /\ pipe' = Append(pipe, Message)
  /\ UNCHANGED <<file, backup, job, tmp, sent, runVars, mishap, litter>>
\* It is killed, by the memory it did not get (nobody looks at what brk returns)
\* or by a signal, perhaps in the middle of a block.
ChildKilled ==
  /\ child = "write" /\ sent < Len(file.blocks) /\ child' = "done"
  /\ \/ /\ UNCHANGED pipe
        /\ IF sent = 0 THEN UNCHANGED mishap ELSE Mishap
     \/ pipe' = Append(pipe, Torn) /\ Mishap
  /\ UNCHANGED <<file, backup, job, tmp, sent, runVars, litter>>

\* The parent copies the pipe to its file; if that fails the child is on its own.
ReadPipe ==
  /\ job = "read" /\ pipe # <<>>
  /\ \/ /\ tmp' = Append(tmp, Head(pipe)) /\ pipe' = Tail(pipe)
        /\ UNCHANGED <<job, child, sent>>
     \/ DropTemp /\ job' = "idle" /\ pipe' = <<>> /\ child' = "none" /\ sent' = 0
  /\ UNCHANGED <<file, backup, runVars, mishap, litter>>

\* Slip: nobody looks at the size.
LooksUnpacked_Any(b) == TRUE
\* 128 bytes, more than the stub's message has.  (The text that is looked for is
\* that of another stub.)
LooksUnpacked(b) == b # <<>> /\ b[1] # Message
\* Slip: the parent keeps its own write end open and waits for itself.
PipeEof_Held == FALSE
PipeEof == pipe = <<>> /\ child = "done"
PipeEnd ==
  /\ job = "read" /\ PipeEof
  /\ child' = "none" /\ sent' = 0
  /\ IF LooksUnpacked(tmp)
     THEN /\ job' = "replace" /\ file' = Absent                    \* unlink(infile)
          /\ \/ UNCHANGED <<tmp, mishap>>
             \/ tmp' \in Cut(tmp) /\ Mishap            \* rewind, fclose
     ELSE job' = "idle" /\ DropTemp /\ UNCHANGED <<file, mishap>>
  /\ UNCHANGED <<backup, pipe, runVars, litter>>

\* my_rename: rename, or a copy to the other file system that may break off, noticed
\* or not, and whose source is removed all the same.
Replace ==
  /\ job = "replace" /\ job' = "idle" /\ DropTemp
  /\ \/ file' = Content("plain", tmp) /\ UNCHANGED <<backup, mishap>>
     \/ \E b \in Cut(tmp) :
          file' = Content("plain", b) /\ UNCHANGED backup /\ Mishap
     \/ \E f \in {Absent} \cup {Content("plain", b) : b \in Cut(tmp)} :
          RestoreBackup(f) /\ Mishap
  /\ UNCHANGED <<child, pipe, sent, runVars, litter>>

\* The command is interrupted.  (The temporary file it leaves is of no concern.)
Kill ==
  /\ job # "idle"
  /\ file' \in {file} \cup
       CASE job = "append"  -> {Content("packed", b) : b \in Cut(tmp)}
         [] job = "replace" -> {Content("plain", b) : b \in Cut(tmp)}
         [] OTHER           -> {}
  /\ IF job \in {"append", "replace"} THEN Mishap ELSE UNCHANGED mishap
  /\ job' = "idle" /\ DropTemp /\ child' = "none" /\ pipe' = <<>> /\ sent' = 0
  /\ UNCHANGED <<backup, runVars, litter>>

------------------------------------------------------------------------------
(* The stub *)

Set(r, s) == run' = [run EXCEPT ![r] = s]
\* On to p; the attempts are not asked for again.
Goto(r, p) == Set(r, Stub(p, run[r].name, Tries, run[r].image, run[r].out))

Exec(r) ==
  /\ run[r] = IdleRun /\ ~cleaner[r] /\ file.kind = "packed"
  /\ Set(r, Stub("mkdir", AnyName, Tries, file.blocks, <<>>))
  /\ UNCHANGED <<packVars, cleaner, dirs, mishap, litter>>

\* One attempt less; the stub gives up with a message after the last.
TryAgain(r) ==
  IF run[r].tries > 1
  THEN Set(r, Stub("mkdir", run[r].name, run[r].tries - 1, run[r].image, run[r].out))
  ELSE Set(r, IdleRun)

Mkdir(r) ==
  /\ run[r].pc = "mkdir"
  /\ \/ \E n \in Names :
          /\ dirs[n] = NoDir
          /\ dirs' = [dirs EXCEPT ![n] = Dir(r, NoRun, <<>>)]
          /\ Set(r, Stub("open", n, run[r].tries, run[r].image, <<>>))
     \/ TryAgain(r) /\ UNCHANGED dirs
  /\ UNCHANGED <<packVars, cleaner, mishap, litter>>

\* Slip: rmdir first, which a file prevents.
RmDir_Swapped(r) ==
  dirs' = [dirs EXCEPT ![run[r].name] =
             IF @.owner = NoRun THEN NoDir ELSE Dir(@.maker, NoRun, <<>>)]
\* unlink(dfname) and rmdir(ddname), by name.
RmDir(r) == dirs' = [dirs EXCEPT ![run[r].name] = NoDir]

\* error: both are removed, whoever made them, and the stub ends; the slot is
\* free for another run once its clean-up process, if any, is gone too.
Error(r) == RmDir(r) /\ (IF cleaner[r] THEN Goto(r, "late") ELSE Set(r, IdleRun))

\* open(O_CREAT | O_EXCL).  -EPERM alone is noticed; after any other error the
\* stub goes on with a descriptor that is none.
FileFree(n) == dirs[n] # NoDir /\ dirs[n].owner = NoRun
Open(r) ==
  /\ run[r].pc = "open"
  /\ \/ /\ FileFree(run[r].name) /\ Goto(r, "write")
        /\ dirs' = [dirs EXCEPT ![run[r].name] = Dir(@.maker, r, <<>>)]
     \/ FileFree(run[r].name) /\ RmDir(r) /\ TryAgain(r)
     \/ Goto(r, "badfd") /\ UNCHANGED dirs
  /\ UNCHANGED <<packVars, cleaner, mishap, litter>>

\* The first write to it fails.
BadFd(r) ==
  /\ run[r].pc = "badfd"
  /\ IF run[r].image = <<>> THEN Goto(r, "fork") /\ UNCHANGED dirs ELSE Error(r)
  /\ UNCHANGED <<packVars, cleaner, mishap, litter>>

\* decompress_loop: blocks are unpacked and written one by one, into the file or
\* into what is left of one that another run has unlinked.
WriteBlock(r) ==
  LET i == Len(run[r].out) + 1
      b == Append(run[r].out, run[r].image[i])
  IN /\ run[r].pc = "write" /\ i <= Len(run[r].image)
     /\ \/ /\ Set(r, Stub("write", run[r].name, Tries, run[r].image, b))
           /\ dirs' = [dirs EXCEPT ![run[r].name] =
                         IF @.owner = r THEN Dir(@.maker, r, b) ELSE @]
        \/ Error(r)
     /\ UNCHANGED <<packVars, cleaner, mishap, litter>>

\* A size of 0 ends the loop.  What was cut off looks like that, or is corrupt.
WriteEnd(r) ==
  /\ run[r].pc = "write" /\ run[r].out = run[r].image
  /\ \/ Goto(r, "fork") /\ UNCHANGED dirs
     \/ run[r].image # Whole /\ Error(r)
  /\ UNCHANGED <<packVars, cleaner, mishap, litter>>

\* fork, fork again and wait; either may fail, and then nobody cleans up.
Fork(r) ==
  /\ run[r].pc = "fork"
  /\ \/ cleaner' = [cleaner EXCEPT ![r] = TRUE] /\ UNCHANGED litter
     \/ litter' = litter \cup {"dir"} /\ UNCHANGED cleaner
  /\ Goto(r, "exec")
  /\ UNCHANGED <<packVars, dirs, mishap>>

\* The kernel executes no file that is open for writing.
Writing(n) == LET o == dirs[n].owner IN run[o].pc = "write" /\ run[o].name = n
Executable(n) == dirs[n].owner # NoRun /\ dirs[n].blocks # <<>> /\ ~Writing(n)
\* execve of whatever is there under the name; if it fails, on to the error.
Execve(r) ==
  /\ run[r].pc = "exec"
  /\ \/ /\ Executable(run[r].name)
        /\ Set(r, Stub("running", run[r].name, Tries, dirs[run[r].name].blocks, <<>>))
        /\ UNCHANGED dirs
     \/ Error(r)
  /\ UNCHANGED <<packVars, cleaner, mishap, litter>>

\* After its sleep.
CleanUp(r) ==
  /\ cleaner[r] /\ cleaner' = [cleaner EXCEPT ![r] = FALSE]
  /\ RmDir(r)
  /\ UNCHANGED <<packVars, run, mishap, litter>>

\* The program ends.
RunEnd(r) ==
  /\ run[r].pc \in {"running", "late"} /\ ~cleaner[r]
  /\ Set(r, IdleRun)
  /\ UNCHANGED <<packVars, cleaner, dirs, mishap, litter>>

\* The stub is killed, by a signal or by memory it did not get, or its clean-up
\* process is.  (One that may not open /dev/urandom ends like one killed at mkdir.)
Killed(r) ==
  \/ /\ run[r].pc \in {"mkdir", "open", "badfd", "write", "fork", "exec"}
     /\ (IF cleaner[r] THEN Goto(r, "late") ELSE Set(r, IdleRun))
     /\ litter' = litter \cup {x \in {"dir"} : run[r].pc \in {"open", "badfd", "write", "fork"}}
                         \cup {x \in {"cut"} : run[r].pc = "write"}
     /\ UNCHANGED <<packVars, cleaner, dirs, mishap>>
  \/ /\ cleaner[r] /\ cleaner' = [cleaner EXCEPT ![r] = FALSE]
     /\ litter' = litter \cup {"dir"}
     /\ UNCHANGED <<packVars, run, dirs, mishap>>

------------------------------------------------------------------------------
JobStep ==
  \/ CompressBlock \/ CompressEnd \/ CompressSize \/ Truncate \/ AppendStub
  \/ ChildWrite \/ ChildEnd \/ ChildKilled \/ ReadPipe \/ PipeEnd \/ Replace
RunStep(r) ==
  \/ Mkdir(r) \/ Open(r) \/ BadFd(r) \/ WriteBlock(r) \/ WriteEnd(r) \/ Fork(r) \/ Execve(r)
Next ==
  \/ CompressStart \/ DecompressStart \/ JobStep \/ Kill
  \/ \E r \in Runs : Exec(r) \/ RunStep(r) \/ CleanUp(r) \/ RunEnd(r) \/ Killed(r)
Spec == Init /\ [][Next]_vars
------------------------------------------------------------------------------
\* Every variable keeps its type; tmp may hold NoFile.
Blocks == 0 .. NBlocks + 1
PackType ==
  /\ file \in [kind : {"plain", "packed", "other", "absent"}, blocks : Seq(Blocks)]
  /\ Len(file.blocks) <= NBlocks + 1 /\ backup \in BOOLEAN
  /\ job \in {"idle", "compress", "size", "truncate", "append", "read", "replace", "hung"}
  /\ tmp \in Seq(Blocks \cup {-1}) /\ pipe \in Seq(Blocks)
  /\ child \in {"none", "write", "done"} /\ sent \in 0 .. NBlocks /\ mishap \in BOOLEAN
Stubs == [pc : {"idle", "mkdir", "open", "badfd", "write", "fork", "exec", "running", "late"},
          name : Names, tries : 1 .. Tries, image : Seq(Blocks), out : Seq(Blocks)]
Folders == [maker : Runs \cup {NoRun}, owner : Runs \cup {NoRun}, blocks : Seq(Blocks)]
RunType ==
  /\ run \in [Runs -> Stubs] /\ cleaner \in [Runs -> BOOLEAN]
  /\ litter \subseteq {"dir", "cut"} /\ dirs \in [Names -> Folders]
TypeOK == PackType /\ RunType

\* Between commands the program is there, plain or packed and whole, unless
\* one of these broke it: a read error after the first block, taken for the end
\* of the file; bytes of the temporary file that could not be flushed; a write of
\* the packed file that failed after it had been truncated; a backup that was
\* taken for the original; a copy across file systems that failed; a child that
\* failed after 128 bytes; a kill.
NeverLost ==
  /\ TypeOK
  /\ job = "idle" =>
       \/ file \in {Content("plain", Whole), Content("packed", Whole)}
       \/ mishap

\* What a run executes is the whole program, whatever other runs remove, make and
\* write under the same name at the same time, unless the packed file was broken
\* or a stub was killed while it wrote.
RunsWhole ==
  \A r \in Runs : run[r].pc = "running" =>
    run[r].image = Whole \/ mishap \/ "cut" \in litter

\* When all runs are over and so are their clean-up processes, no directory is
\* left, unless a fork failed or one of the processes was killed.
NothingLeft ==
  (\A r \in Runs : run[r] = IdleRun /\ ~cleaner[r]) /\ litter = {} =>
    \A n \in Names : dirs[n] = NoDir

\* The two promises of stub.s to whoever runs a packed program.
RunsClean == RunsWhole /\ NothingLeft

\* The inductive invariant.  The packer: where the program is while a command is
\* at work, and what has passed through the pipe.
Safe == file \in {Content("plain", Whole), Content("packed", Whole)} \/ mishap
Flow ==
  /\ tmp \in Seq(Blocks) /\ Len(tmp) + Len(pipe) <= sent + 1
  /\ child = "write" => Len(tmp) + Len(pipe) = sent
  /\ \/ mishap
     \/ /\ child = "done" => Len(tmp) + Len(pipe) \in {0, NBlocks}
        /\ \A i \in 1 .. Len(tmp) : tmp[i] = i
        /\ \A i \in 1 .. Len(pipe) : pipe[i] = Len(tmp) + i
PackOK ==
  /\ file.kind = "packed" =>
       Len(file.blocks) <= NBlocks /\ (file.blocks = Whole \/ mishap)
  /\ job \in {"idle", "read", "hung"} => Safe
  /\ job \in {"read", "hung"} => file.kind = "packed"
  /\ job \in {"compress", "size", "truncate"} => file = Content("plain", Whole)
  /\ job \in {"compress", "size", "truncate", "append"} =>
       tmp \in Seq(Blocks) /\ Len(tmp) <= NBlocks
  /\ job = "append" => tmp = Whole \/ mishap
  /\ job = "replace" => /\ tmp \in Seq(Blocks) /\ Len(tmp) <= NBlocks + 1
                        /\ tmp = Whole \/ mishap
  /\ child # "none" <=> job = "read"
  /\ child = "none" => sent = 0
  /\ IF job = "read" THEN Flow ELSE pipe = <<>>

\* The stub: its image is the program; a clean-up process belongs to a run that
\* has got that far; the file a run writes is its output as long as it is linked.
\* A directory is there because the run that made it under that name is at work
\* or is yet to be cleaned up after, and a file that nobody writes is whole.
Broken == mishap \/ "cut" \in litter
Holds(r) == run[r].pc \in {"open", "badfd", "write", "fork"} \/ cleaner[r]
RunOK(r) ==
  /\ cleaner[r] => run[r].pc \in {"exec", "running", "late"}
  /\ run[r].pc # "idle" => run[r].image = Whole \/ Broken
  /\ run[r].pc \in {"mkdir", "open", "badfd"} => run[r].out = <<>>
  /\ run[r].pc = "write" /\ dirs[run[r].name].owner = r =>
       dirs[run[r].name].blocks = run[r].out
DirOK(n) ==
  /\ \/ litter # {} \/ dirs[n] = NoDir
     \/ \E r \in Runs : dirs[n].maker = r /\ Holds(r) /\ run[r].name = n
  /\ dirs[n].owner = NoRun \/ dirs[n].blocks = Whole \/ Broken \/ Writing(n)
IInv == TypeOK /\ PackOK /\ (\A r \in Runs : RunOK(r)) /\ (\A n \in Names : DirOK(n))

\* A command that has begun never waits for what does not come: it, or the child
\* whose pipe it reads to the end, can take a step until it is over, whatever has
\* failed and been killed, except when the child could not be executed.  (Every step
\* brings it closer to its end.)
CommandGoesOn == job \notin {"idle", "hung"} => ENABLED JobStep
==============================================================================
