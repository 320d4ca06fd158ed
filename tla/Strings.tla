------------------------------ MODULE Strings ------------------------------
(***************************************************************************)
(* The growing strings of alloc.h on the kernel heap, as the shell uses    *)
(* them: the line that is typed, string_split, and FREE afterwards.  Every *)
(* call of the allocator is a step of Heap; mem is what the heap's memory  *)
(* holds, so words are read back through the pointers in it.               *)
(*                                                                         *)
(* A character is a number and takes one unit; a String in a StringList    *)
(* takes StringUnits, the first of which holds its contents pointer.       *)
(***************************************************************************)
EXTENDS Heap, Sequences, SequencesExt

CONSTANTS StringUnits, \* sizeof(String)
          Keys,        \* characters that are typed
          MaxLine,     \* bound: characters on a line
          MaxCommands  \* bound: commands

ASSUME StringsAssumption ==
    /\ StringUnits \in Nat \ {0} /\ Keys \subseteq Nat \ {0}
    /\ MaxLine \in Nat /\ MaxCommands \in Nat /\ Units > 0

VARIABLES at,        \* where the shell is
          str,       \* curr_command, working_dir, curr and sl
          mem,       \* contents of the heap
          appends,   \* the APPENDs to be done next: which string, which value
          block,     \* what the last kmalloc returned
          i, in_string,
          frees,     \* the pointers to be freed next
          commands,
          typed,     \* history: the line as it stands on the screen
          stale,     \* history: a redirection failed and the line was not reset
          leaked     \* history: blocks to which no pointer is left

client == <<at, str, mem, appends, block, i, in_string, frees, commands, typed, stale, leaked>>
all    == <<vars, client>>

Nul   == 0
Space == 1
Quote == 2
Gt    == 3
PtrOfCurr == -1                     \* stands for curr.contents, once it is known

Strs     == {"line", "dir", "curr", "list"}
EmptyStr == [len |-> 0, capacity |-> 0, contents |-> 0]
Size(x)  == IF x = "list" THEN StringUnits ELSE 1

StringInit ==
    /\ Init
    /\ at = "boot" /\ str = [x \in Strs |-> EmptyStr] /\ mem = [u \in 0 .. (Units - 1) |-> Nul]
    /\ appends = << <<"dir", 9>> >> /\ block = 0 /\ i = 0 /\ in_string = FALSE
    /\ frees = <<>> /\ commands = 0 /\ typed = <<>> /\ stale = FALSE /\ leaked = {}

-----------------------------------------------------------------------------
(* APPEND *)

Resolved(v) == IF v = PtrOfCurr THEN str["curr"].contents ELSE v

\* The string x with one more element, its contents at p and its capacity cap.
Put(x, p, cap, len) ==
    str' = [str EXCEPT ![x] = [len |-> len + 1, capacity |-> cap, contents |-> p],
                       !["curr"].capacity = IF x = "list" THEN 0
                                            ELSE IF x = "curr" THEN cap ELSE @]

AppendDone ==
    /\ appends' = Tail(appends)
    /\ UNCHANGED <<at, i, in_string, frees, commands, typed, stale, leaked>>

Appending == pc = "run" /\ appends # <<>>

\* There is room.  string_split sets curr.capacity to 0 once curr is in the list.
AppendFits ==
    /\ Appending
    /\ LET x == appends[1][1]
           s == str[x]
       IN  /\ s.capacity > 0 /\ s.len < s.capacity
           /\ mem' = [mem EXCEPT ![s.contents + s.len * Size(x)] = Resolved(appends[1][2])]
           /\ Put(x, s.contents, s.capacity, s.len)
           /\ AppendDone
    /\ UNCHANGED <<vars, block>>

\* kcalloc of two elements.
AppendNew ==
    /\ Appending
    /\ LET x == appends[1][1]
       IN  /\ str[x].capacity = 0
           /\ Kmalloc(2 * Size(x))
           /\ IF pc' = "panic" THEN UNCHANGED client
              ELSE LET r == CHOOSE r \in held' : r \notin held
                   IN  /\ block' = r.start
                       /\ mem' = [u \in DOMAIN mem |-> IF u = r.start THEN Resolved(appends[1][2])
                                                       ELSE IF u \in Span(r) THEN Nul ELSE mem[u]]
                       /\ Put(x, r.start, 2, 0)
                       /\ AppendDone

\* krealloc to twice the capacity: the new block is taken,
AppendGrow ==
    /\ Appending
    /\ LET x == appends[1][1]
           s == str[x]
       IN  /\ s.capacity > 0 /\ s.len = s.capacity
           /\ \E r \in held : r.start = s.contents /\ KreallocTake(r, 2 * s.capacity * Size(x))
    /\ block' = IF pc' = "panic" THEN block ELSE (CHOOSE r \in held' : r \notin held).start
    /\ UNCHANGED <<at, str, mem, appends, i, in_string, frees, commands, typed, stale, leaked>>

\* A bug the properties must notice: the string keeps its old contents pointer.
AppendMoveLost ==
    /\ pc = "move" /\ KreallocMove
    /\ LET x == appends[1][1]
           s == str[x]
       IN  /\ mem' = [mem EXCEPT ![s.contents + s.len * Size(x)] = Resolved(appends[1][2])]
           /\ Put(x, s.contents, 2 * s.capacity, s.len)
           /\ AppendDone
    /\ UNCHANGED block

\* the old one given back, and its contents moved.
AppendMove ==
    /\ pc = "move" /\ KreallocMove
    /\ LET x == appends[1][1]
           s == str[x]
           moved == [u \in DOMAIN mem |-> IF u \in block .. (block + moving.length - 1)
                                          THEN mem[u - block + moving.start] ELSE mem[u]]
       IN  /\ mem' = [moved EXCEPT ![block + s.len * Size(x)] = Resolved(appends[1][2])]
           /\ Put(x, block, 2 * s.capacity, s.len)
           /\ AppendDone
    /\ UNCHANGED block

-----------------------------------------------------------------------------
(* shell: keys *)

Ready(where) == pc = "run" /\ appends = <<>> /\ frees = <<>> /\ at = where

Boot ==
    /\ Ready("boot") /\ at' = "prompt"
    /\ UNCHANGED <<vars, str, mem, appends, block, i, in_string, frees, commands, typed, stale, leaked>>

Key(k) ==
    /\ Ready("prompt") /\ commands < MaxCommands
    /\ str["line"].len < MaxLine \/ (stale /\ typed = <<>>)
    /\ appends' = << <<"line", k>> >> /\ typed' = Append(typed, k)
    /\ UNCHANGED <<vars, at, str, mem, block, i, in_string, frees, commands, stale, leaked>>

\* A bug the properties must notice: a backspace on an empty line.
BackspaceUnguarded ==
    /\ Ready("prompt") /\ commands < MaxCommands
    /\ str' = [str EXCEPT !["line"].len = @ - 1]
    /\ typed' = IF typed = <<>> THEN <<>> ELSE Front(typed)
    /\ UNCHANGED <<vars, at, mem, appends, block, i, in_string, frees, commands, stale, leaked>>

Backspace ==
    /\ Ready("prompt") /\ str["line"].len > 0 /\ commands < MaxCommands
    /\ str' = [str EXCEPT !["line"].len = @ - 1]
    /\ typed' = IF typed = <<>> THEN <<>> ELSE Front(typed)
    /\ UNCHANGED <<vars, at, mem, appends, block, i, in_string, frees, commands, stale, leaked>>

\* An empty line only brings the next prompt.
Enter ==
    /\ Ready("prompt") /\ str["line"].len > 0 /\ commands < MaxCommands
    /\ at' = "split" /\ commands' = commands + 1
    /\ appends' = << <<"line", Nul>> >>
    /\ str' = [str EXCEPT !["curr"] = EmptyStr, !["list"] = EmptyStr]
    /\ i' = 0 /\ in_string' = FALSE
    /\ UNCHANGED <<vars, mem, block, frees, typed, stale, leaked>>

-----------------------------------------------------------------------------
(* string_split *)

\* A bug the properties must notice: the quotes are seen after the delimiter.
SplitCharLate ==
    /\ Ready("split")
    /\ LET c == mem[str["line"].contents + i]
       IN  /\ c # Nul
           /\ in_string' = (in_string # (c = Quote))
           /\ appends' = IF c = Space THEN << <<"curr", Nul>>, <<"list", PtrOfCurr>> >>
                                      ELSE << <<"curr", c>> >>
    /\ i' = i + 1
    /\ UNCHANGED <<vars, at, str, mem, block, frees, commands, typed, stale, leaked>>

SplitChar ==
    /\ Ready("split")
    /\ LET c == mem[str["line"].contents + i]
           quoted == in_string # (c = Quote)
       IN  /\ c # Nul
           /\ in_string' = quoted
           /\ appends' = IF c = Space /\ ~ quoted
                         THEN << <<"curr", Nul>>, <<"list", PtrOfCurr>> >>
                         ELSE << <<"curr", c>> >>
    /\ i' = i + 1
    /\ UNCHANGED <<vars, at, str, mem, block, frees, commands, typed, stale, leaked>>

\* curr.len is not reset with the capacity: a delimiter at the end is followed by
\* an empty word.
SplitEnd ==
    /\ Ready("split") /\ mem[str["line"].contents + i] = Nul
    /\ at' = "run"
    /\ appends' = IF str["curr"].len > 0 THEN << <<"curr", Nul>>, <<"list", PtrOfCurr>> >> ELSE <<>>
    /\ UNCHANGED <<vars, str, mem, block, i, in_string, frees, commands, typed, stale, leaked>>

-----------------------------------------------------------------------------
(* shell: the command and what is freed *)

\* The characters at p up to the zero.
TextAt(p) ==
    LET end == CHOOSE e \in p .. (Units - 1) : mem[e] = Nul /\ \A u \in p .. (e - 1) : mem[u] # Nul
    IN  [k \in 1 .. (end - p) |-> mem[p + k - 1]]

WordPtr(n) == mem[str["list"].contents + (n - 1) * StringUnits]
Words      == [n \in 1 .. str["list"].len |-> TextAt(WordPtr(n))]
HeldAt(P)  == {r \in held : r.start \in P}

Redirections == {n \in 1 .. (Len(Words) - 1) : Words[n] = <<Gt>>}

\* A bug the properties must notice: free_string_list skips the last string.
FreeListShort == [n \in 1 .. (str["list"].len - 1) |-> WordPtr(1)] \o <<str["list"].contents>>

\* free_string_list: the first string as often as there are strings, then the list.
FreeList == [n \in 1 .. str["list"].len |-> WordPtr(1)] \o <<str["list"].contents>>

\* ASSERT(i == cmd.len - 2)
TooManyWords ==
    /\ Ready("run") /\ Redirections # {} /\ Min(Redirections) # Len(Words) - 1
    /\ pc' = "panic" /\ UNCHANGED <<bits, entries, held, moving, client>>

\* The file of the redirection cannot be opened: neither the words are freed nor
\* the line is reset.
RedirectionFails ==
    /\ Ready("run") /\ Redirections # {} /\ Min(Redirections) = Len(Words) - 1
    /\ at' = "prompt" /\ stale' = TRUE /\ typed' = <<>>
    /\ leaked' = leaked \cup HeldAt({str["list"].contents} \cup {WordPtr(n) : n \in DOMAIN Words})
    /\ UNCHANGED <<vars, str, mem, appends, block, i, in_string, frees, commands>>

\* A bug the properties must notice: the line is not reset after a command.
RunKeepsLine ==
    /\ Ready("run")
    /\ Redirections # {} => Min(Redirections) = Len(Words) - 1
    /\ at' = "prompt" /\ frees' = FreeList /\ stale' = FALSE /\ typed' = <<>>
    /\ leaked' = leaked \cup HeldAt({WordPtr(n) : n \in 2 .. Len(Words)})
    /\ UNCHANGED <<vars, str, mem, appends, block, i, in_string, commands>>

\* The command runs; its words are freed and the line is reset.
Run ==
    /\ Ready("run")
    /\ Redirections # {} => Min(Redirections) = Len(Words) - 1
    /\ at' = "prompt" /\ frees' = FreeList /\ stale' = FALSE /\ typed' = <<>>
    /\ str' = [str EXCEPT !["line"].len = 0]
    /\ leaked' = leaked \cup HeldAt({WordPtr(n) : n \in 2 .. Len(Words)})
    /\ UNCHANGED <<vars, mem, appends, block, i, in_string, commands>>

\* exit frees the line and the directory as well.
Exit ==
    /\ Ready("run")
    /\ Redirections # {} => Min(Redirections) = Len(Words) - 1
    /\ at' = "off" /\ frees' = <<str["line"].contents, str["dir"].contents>> \o FreeList
    /\ leaked' = leaked \cup HeldAt({WordPtr(n) : n \in 2 .. Len(Words)})
    /\ UNCHANGED <<vars, str, mem, appends, block, i, in_string, commands, typed, stale>>

Free ==
    /\ pc = "run" /\ frees # <<>> /\ Kfree(Head(frees)) /\ frees' = Tail(frees)
    /\ UNCHANGED <<at, str, mem, appends, block, i, in_string, commands, typed, stale, leaked>>

-----------------------------------------------------------------------------
StringNext ==
    \/ AppendFits \/ AppendNew \/ AppendGrow \/ AppendMove
    \/ Boot \/ (\E k \in Keys : Key(k)) \/ Backspace \/ Enter
    \/ SplitChar \/ SplitEnd
    \/ TooManyWords \/ RedirectionFails \/ Run \/ Exit \/ Free

StringSpec == StringInit /\ [][StringNext]_all

-----------------------------------------------------------------------------
StringTypeOK ==
    /\ TypeOK
    /\ at \in {"boot", "prompt", "split", "run", "off"}
    /\ str \in [Strs -> [len : Nat, capacity : Nat, contents : 0 .. (Units - 1)]]
    /\ \A x \in Strs : str[x].capacity > 0 => str[x].len <= str[x].capacity
    /\ mem \in [0 .. (Units - 1) -> Nat] /\ block \in 0 .. (Units - 1)
    /\ appends \in Seq(Strs \X Int) /\ frees \in Seq(0 .. (Units - 1))
    /\ i \in Nat /\ in_string \in BOOLEAN /\ commands \in Nat
    /\ typed \in Seq(Keys) /\ stale \in BOOLEAN /\ leaked \subseteq held

\* The words of the text, when it is split at every space that is outside quotes:
\* each ends in front of a cut or at the end of the text.
Quoted(text, n) == Cardinality({k \in 1 .. n : text[k] = Quote}) % 2 = 1
Cuts(text)      == {n \in DOMAIN text : text[n] = Space /\ ~ Quoted(text, n)}
Begin(ends, n)  == IF n = 1 THEN 1 ELSE ends[n - 1] + 1

IsSplit(words, text) ==
    LET stops == Cuts(text) \cup {Len(text) + 1}
    IN  \E ends \in [DOMAIN words -> stops] :
            /\ {ends[n] : n \in DOMAIN words} = stops
            /\ \A n \in DOMAIN words :
                  /\ Begin(ends, n) <= ends[n]
                  /\ words[n] = SubSeq(text, Begin(ends, n), ends[n] - 1)

\* The words that string_split leaves in memory are those of the line.
SplitCorrect == Ready("run") => IsSplit(Words, TextAt(str["line"].contents))

\* What runs is the line that stands on the screen, as long as no redirection
\* failed since the last command that ran (kernel.c:297: the old line stays).
RunsWhatWasTyped == Ready("run") /\ ~ stale => IsSplit(Words, typed)

\* The blocks of the strings in use are held, with the capacity they claim: no free,
\* and none of the repeated frees of the first string, takes them away.
Uses(p, n) == \E r \in held : r.start = p /\ r.length >= n
BlocksHeld ==
    pc = "run" /\ at # "off" =>
        /\ \A x \in {"line", "dir"} \cup (IF at = "split" THEN {"curr", "list"} ELSE {}) :
              str[x].capacity > 0 => Uses(str[x].contents, str[x].capacity * Size(x))
        /\ Ready("run") => /\ Uses(str["list"].contents, str["list"].len * StringUnits)
                           /\ \A n \in DOMAIN Words : Uses(WordPtr(n), Len(Words[n]) + 1)

\* At the prompt the heap holds the line, the directory and what was leaked: of a
\* command that ran its words but the first, of one that failed all of them.
OnlyTailsLeak ==
    Ready("prompt") =>
        held = leaked \cup HeldAt({str["dir"].contents})
               \cup (IF str["line"].capacity = 0 THEN {} ELSE HeldAt({str["line"].contents}))
=============================================================================
