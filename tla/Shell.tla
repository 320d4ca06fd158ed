------------------------------- MODULE Shell -------------------------------
(***************************************************************************)
(* The shell of kernel.c on the file system: the only caller of fs.c once  *)
(* the kernel is up.  Every call that a command makes is one step of       *)
(* FileSystem, so that the descriptors and files of the shell, its error   *)
(* paths and its loops are those of the code.                              *)
(*                                                                         *)
(* A command is what string_split (module Strings) makes of a line.  How   *)
(* sget waits is in Transfer; here it takes any number of bytes.  run is   *)
(* left out: it jumps into the file.                                       *)
(***************************************************************************)
EXTENDS FileSystemSafety

CONSTANTS Targets,     \* what commands name: pairs of a directory and a name
          Redirects,   \* what output is redirected to, likewise
          CatWidths,   \* characters that cat writes per byte: one, more with -b
          MaxCommands  \* bound: commands

ASSUME ShellAssumption ==
    /\ Targets \subseteq DirPaths \X UnlinkNames /\ Redirects \subseteq Targets
    /\ CatWidths \subseteq Counts /\ 1 \in Counts /\ MaxCommands \in Nat

VARIABLES at,        \* where the shell is
          cmd,       \* its command: what, on which file, redirected to which
          out,       \* exp1_stdout
          fd,        \* the descriptor of cat and sget
          commands,
          polite     \* history: an untorn disk, and no command that the file system cannot take

shell == <<at, cmd, out, fd, commands, polite>>
all   == <<vars, shell>>

STDOUT == 0
FileOps  == {"ls", "cat", "touch", "rm", "mkdir", "sget"}
OtherOps == {"exit", "help", "echo", "noarg"}
NoFile == << <<>>, "" >>
NoCmd  == [op |-> "none", file |-> NoFile, redirect |-> NoFile]
Cmds   == [op : FileOps, file : Targets, redirect : Redirects \cup {NoFile}]
          \cup [op : OtherOps, file : {NoFile}, redirect : Redirects \cup {NoFile}]

ShellInit ==
    /\ Init
    /\ at = "off" /\ cmd = NoCmd /\ out = STDOUT /\ fd = None /\ commands = 0 /\ polite = TRUE

-----------------------------------------------------------------------------
(* main: the kernel boots, the shell starts; after the shell, shutdown.  The
   power may fail while a command runs. *)

\* Nothing is promised to a shell that starts on a torn disk.
Boots ==
    /\ Power /\ pc' # "sync_super"
    /\ at' = IF pc' = "up" THEN "prompt" ELSE "off"
    /\ polite' = (polite /\ ~(pc' = "up" /\ torn'))
    /\ UNCHANGED <<cmd, out, fd, commands>>

-----------------------------------------------------------------------------
(* A line is read, its redirection opened. *)

\* cat opens the last word of its command, which is its own output if there is one.
Opened(c) == IF c.op = "cat" /\ c.redirect # NoFile THEN c.redirect ELSE c.file

\* A command that leaves directories, system files and its own output alone.
Allowed(c) ==
    LET file == Opened(c)[1]
        name == Opened(c)[2]
        to   == c.redirect
    IN  /\ c.op \in {"ls", "touch", "mkdir"} => Traced(file)
        /\ c.op \in {"cat", "rm", "sget"} => Found(file)
        /\ c.op \in {"cat", "sget"} => MayOpen(file, name)
        /\ c.op # "noarg"
        /\ c.op = "rm" => MayUnlink(file, name) /\ to # c.file
        /\ to # NoFile => Found(to[1]) /\ MayOpen(to[1], to[2])

\* A key can be read only while descriptor 0 leads to the terminal.
Enter(c) ==
    /\ pc = "up" /\ at = "ready" /\ commands < MaxCommands
    /\ fdtab[STDOUT].ino \in Inodes /\ itab[fdtab[STDOUT].ino].type = "special"
    /\ c.op \in {"touch", "mkdir"} => c.file[2] \in Names
    /\ cmd' = c /\ commands' = commands + 1 /\ out' = STDOUT
    /\ polite' = (polite /\ Allowed(c))
    /\ at' = IF c.redirect = NoFile THEN "exec" ELSE "redirect"
    /\ UNCHANGED <<vars, fd>>

Redirect ==
    /\ at = "redirect" /\ Open(cmd.redirect[1], cmd.redirect[2])
    /\ IF pc' # "up" THEN UNCHANGED <<at, out>>
       ELSE IF call'.ret = None THEN at' = "prompt" /\ UNCHANGED out
       ELSE at' = "exec" /\ out' = call'.ret
    /\ UNCHANGED <<cmd, fd, commands, polite>>

\* A step of a command: where it is taken, and where the shell goes on.
During(op, here) == at = here /\ cmd.op = op
Goes(next) ==
    /\ at' = IF pc' = "up" THEN next ELSE at
    /\ UNCHANGED <<cmd, out, commands, polite>>

\* Output of any length to the descriptor f.
Puts(f) == \E v \in Data, n \in Counts : Write(f, n, v)

-----------------------------------------------------------------------------
(* The commands *)

ExecLs ==
    /\ During("ls", "exec") /\ ListDir(cmd.file[1])
    /\ Goes(IF call'.ret = None THEN "end" ELSE "ls") /\ UNCHANGED fd
LsWrite == During("ls", "ls") /\ Puts(out) /\ Goes("end") /\ UNCHANGED fd

\* cat and sget open their file.
ExecOpen(op, next) ==
    /\ During(op, "exec") /\ Open(Opened(cmd)[1], Opened(cmd)[2])
    /\ fd' = IF pc' = "up" THEN call'.ret ELSE fd
    /\ Goes(IF call'.ret = None THEN "end" ELSE next)

ExecCat == ExecOpen("cat", "read")

\* A bug the properties must notice: the end of the file does not end the loop.
CatReadOn ==
    /\ During("cat", "read") /\ Read(fd, 1)
    /\ Goes(IF call'.ret >= 0 THEN "write" ELSE "close") /\ UNCHANGED fd

CatRead ==
    /\ During("cat", "read") /\ Read(fd, 1)
    /\ Goes(IF call'.ret > 0 THEN "write" ELSE "close") /\ UNCHANGED fd
CatWrite ==
    /\ During("cat", "write") /\ (\E v \in Data, n \in CatWidths : Write(out, n, v))
    /\ Goes("read") /\ UNCHANGED fd

\* A bug the properties must notice: cat does not close its file.
CatCloseSkipped == During("cat", "close") /\ UNCHANGED vars /\ Goes("end") /\ fd' = None

CatClose == During("cat", "close") /\ Close(fd) /\ Goes("end") /\ fd' = None

ExecEcho == During("echo", "exec") /\ Puts(out) /\ Goes("end") /\ UNCHANGED fd

ExecTouch ==
    /\ During("touch", "exec") /\ Create(cmd.file[1], cmd.file[2], "normal", FALSE)
    /\ Goes("end") /\ UNCHANGED fd
ExecMkdir ==
    /\ During("mkdir", "exec") /\ Create(cmd.file[1], cmd.file[2], "dir", FALSE)
    /\ Goes("end") /\ UNCHANGED fd
ExecRm ==
    /\ During("rm", "exec") /\ Unlink(cmd.file[1], cmd.file[2])
    /\ Goes("end") /\ UNCHANGED fd

\* sget writes each byte until it is written: at the end of the block for ever.
ExecSget == ExecOpen("sget", "sget")
SgetByte ==
    /\ During("sget", "sget") /\ (\E v \in Data : Write(fd, 1, v))
    /\ Goes(IF call'.ret = 0 THEN "stuck" ELSE "sget") /\ UNCHANGED fd
SgetClose == During("sget", "sget") /\ Close(fd) /\ Goes("end") /\ fd' = None

ExecHelp == During("help", "exec") /\ Puts(STDOUT) /\ Goes("end") /\ UNCHANGED fd

\* A command without an argument.  ls, echo, touch, rm, mkdir and sget follow the
\* null pointer behind their only word: address 0 is not mapped, and the fault
\* halts the kernel.  A lone cat takes its own name for a path, and the others
\* take the > of a redirection for one: a relative path is refused or not traced.
\* (echo writes the >, which is ExecEcho.)
ExecNoArg ==
    /\ During("noarg", "exec") /\ pc = "up"
    /\ \/ /\ cmd.redirect = NoFile /\ pc' = "panic"
          /\ UNCHANGED <<mem, fds, disk, saved, call, ghost, crashes>>
       \/ UntracedDir("open")
    /\ Goes("end") /\ UNCHANGED fd

\* The shell returns; main calls shutdown.
ExecExit ==
    /\ During("exit", "exec") /\ Shutdown
    /\ at' = "off" /\ cmd' = NoCmd /\ out' = STDOUT /\ UNCHANGED <<fd, commands, polite>>

-----------------------------------------------------------------------------
(* After the command *)

\* A bug the properties must notice: the terminal is closed like a file.
EndAlways ==
    /\ pc = "up" /\ at = "end" /\ at' = "prompt" /\ out' = STDOUT /\ Close(out)
    /\ UNCHANGED <<cmd, fd, commands, polite>>

End ==
    /\ pc = "up" /\ at = "end" /\ at' = "prompt" /\ out' = STDOUT
    /\ IF out # STDOUT THEN Close(out) ELSE UNCHANGED vars
    /\ UNCHANGED <<cmd, fd, commands, polite>>

\* The error message, if any, and the prompt.
Prompt ==
    /\ at = "prompt" /\ Puts(STDOUT)
    /\ at' = "ready" /\ cmd' = NoCmd /\ UNCHANGED <<out, fd, commands, polite>>

ShellStep ==
    \/ Redirect \/ ExecLs \/ LsWrite \/ ExecCat \/ CatRead \/ CatWrite \/ CatClose
    \/ ExecEcho \/ ExecTouch \/ ExecMkdir \/ ExecRm \/ ExecSget \/ SgetClose
    \/ ExecHelp \/ ExecNoArg \/ ExecExit \/ End \/ Prompt

ShellNext == Boots \/ (\E c \in Cmds : Enter(c)) \/ ShellStep \/ SgetByte

\* The shell goes on; nobody has to type, and the serial line may fall silent.
ShellSpec == ShellInit /\ [][ShellNext]_all /\ WF_all(ShellStep)

-----------------------------------------------------------------------------
\* Between two commands only the terminal and the serial port are open, whatever
\* failed on the way: the shell never runs out of descriptors.
NoFdLeaks == pc = "up" /\ at = "ready" => fdmap = SystemFds

\* Commands that leave directories and system files alone reach the file system
\* only in calls for which its consistency is proved (FileSystemProofs).
ShellIsPolite == [][polite' => PoliteNext \/ UNCHANGED vars]_all

\* Every command comes back to the prompt, also cat of a file into itself; unless
\* it reads a device, sget has filled its block, or the kernel stopped.
ReadsDevice ==
    /\ cmd.op = "cat" /\ at = "read"
    /\ fdtab[fd].ino \in Inodes /\ itab[fdtab[fd].ino].type = "special"
CommandEnds ==
    (pc = "up" /\ at \notin {"ready", "sget"})
        ~> (at \in {"ready", "sget", "stuck"} \/ pc # "up" \/ ReadsDevice)

-----------------------------------------------------------------------------
(* The inductive invariants behind NoFdLeaks, for any commands, and behind
   ShellIsPolite. *)

\* The descriptors that a command holds besides those of the system.
WithFile == {"read", "write", "close", "sget", "stuck"}
OutFd    == IF out = STDOUT THEN {} ELSE {out}
OwnFds   == CASE at \in {"off", "prompt", "ready", "redirect"} -> {}
              [] at \in WithFile                               -> OutFd \cup {fd}
              [] OTHER                                         -> OutFd

FdsHeld ==
    /\ pc \in {"off"} \cup FormatSteps \cup (BootSteps \ {"open_ttyS"}) => fdmap = {}
    /\ pc = "open_ttyS" => fdmap = {STDOUT} /\ sysfd["tty"] = STDOUT
    /\ pc = "up" => /\ fdmap = SystemFds \cup OwnFds
                    /\ STDOUT \in SystemFds /\ SystemFds \cap OwnFds = {}
                    /\ at \in WithFile => fd # out

ShellTypeOK ==
    /\ at \in {"off", "prompt", "ready", "redirect", "exec", "ls", "end"} \cup WithFile
    /\ pc = "up" => at # "off"
    /\ at \notin {"off", "prompt", "ready"} =>
          cmd \in Cmds /\ (cmd.op \in {"touch", "mkdir"} => cmd.file[2] \in Names)
    /\ at = "redirect" => cmd.redirect # NoFile
    /\ polite \in BOOLEAN

ShellInvariant == ShellTypeOK /\ FdsHeld

\* What Allowed found out still holds when the redirection has been opened.
PoliteSoFar ==
    polite => /\ FsInvariant /\ MountInvariant /\ CrashInvariant
              /\ pc = "up" => /\ ~torn
                              /\ at \in {"redirect", "exec"} => Allowed(cmd)
=============================================================================
