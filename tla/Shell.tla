--------------------------------- MODULE Shell ---------------------------------
(***************************************************************************)
(* The command line shell (userspace/shell.c): a line that was typed is    *)
(* cut into arguments and redirections, the files are opened, the program  *)
(* is started with vfork() and execve(), and waited for unless it runs in  *)
(* the background.                                                         *)
(*                                                                         *)
(* A line is a sequence of characters, of which "a" stands for any that is *)
(* not special and "e" for the first of a word that the shell takes for    *)
(* its own "exit" (it compares beginnings: any word that begins so).  What *)
(* a descriptor denotes is "console" or a name and a way to open it.  How  *)
(* processes are scheduled and die is Process's; a child here runs until   *)
(* it has finished.  When execve() fails the child goes on as a second     *)
(* shell in its parent's memory: mode "twins", after which nothing is said *)
(* (Process, run process_exec_fails).                                      *)
(***************************************************************************)
EXTENDS Integers, Sequences, SequencesExt

CONSTANTS
    LineCharacters,   \* that lines are made of
    MaxLine,          \* bound: characters of a line
    Commands,         \* lines that are also run
    Garbage_behind,   \* what may be behind the first line in memory
    ShellDescriptors, \* 0 .. MAX_FD_PER_PROC - 1
    MaxRuns,          \* bound: commands
    MaxJobs           \* bound: children at a time

ASSUME ShellAssumption ==
    /\ MaxLine \in Nat /\ MaxRuns \in Nat /\ MaxJobs \in Nat
    /\ 0..2 \subseteq ShellDescriptors /\ ShellDescriptors \subseteq Nat
    /\ <<>> \in Garbage_behind

VARIABLES
    typed_line,       \* as it was typed
    behind_line,      \* what follows in memory
    parsed,           \* [arguments, stdin, stdout, stderr, background]
    at,               \* where the shell is
    descriptors,      \* of the shell
    given,            \* descriptors that files were opened on, by stream
    streams,          \* history: descriptors of the program just started
    jobs,             \* children, the first one as the kernel finds them
    waited,           \* the child that is waited for
    terminal,         \* "newt", the shell's own settings, or "oldt"
    leaked,           \* history: an open() failed after another had not
    runs

shell_vars == <<typed_line, behind_line, parsed, at, descriptors, given, streams, jobs,
                waited, terminal, leaked, runs>>

Unset == <<"unset">>

-----------------------------------------------------------------------------
(* create_argv()                                                           *)

\* The character at index i of memory: the line, its 0, and what is behind.
At_line(s, behind, i) ==
    CASE i <= Len(s) -> s[i]
      [] i > Len(s) + 1 /\ i <= Len(s) + 1 + Len(behind) -> behind[i - Len(s) - 1]
      [] OTHER -> "0"

\* get_next_arg(): past spaces.
NextArg(s, behind, i) ==
    LET skip[j \in 1..(Len(s) + Len(behind) + 4)] ==
            IF At_line(s, behind, j) = " " THEN skip[j + 1] ELSE j
    IN skip[i]

\* The index of the space or 0 at the end of the word that index i is in.
WordEnd(s, behind, i) ==
    LET end[j \in i..(Len(s) + Len(behind) + 4)] ==
            IF At_line(s, behind, j) \in {" ", "0"} THEN j ELSE end[j + 1]
    IN end[i]

Blank == [arguments |-> <<>>, stdin |-> 0, stdout |-> 0, stderr |-> 0, how |-> <<"write", "write">>,
          background |-> FALSE, done |-> FALSE, ends |-> {}]

\* A redirection whose mark ends before index i: where its target begins,
\* which is where the walk goes on.  Another ">" appends.
Redirected(r, s, behind, stream, i) ==
    LET more == stream # "stdin" /\ At_line(s, behind, i) = ">"
        next == NextArg(s, behind, IF more THEN i + 1 ELSE i)
        way == IF more THEN "append" ELSE "write"
    IN [ptr |-> next,
        args |-> [r EXCEPT ![stream] = IF At_line(s, behind, next) = "0" THEN 0 ELSE next,
                           !.how = CASE stream = "stdout" -> <<way, @[2]>>
                                     [] stream = "stderr" -> <<@[1], way>>
                                     [] OTHER -> @,
                           !.done = TRUE]]

IfMarked(w, s, behind, mark, stream) ==
    IF \A k \in DOMAIN mark : At_line(s, behind, w.ptr + k - 1) = mark[k]
    THEN Redirected(w.args, s, behind, stream, w.ptr + Len(mark)) ELSE w

\* The three marks are looked for one behind the other: the target of one may
\* begin with the next.
Marked(w, s, behind) ==
    IfMarked(IfMarked(IfMarked(w, s, behind, <<">">>, "stdout"),
                      s, behind, <<"2", ">">>, "stderr"),
             s, behind, <<"<">>, "stdin")

\* What is behind the first redirection is no argument any more.  A 0 is
\* written at the end of the word, and the walk steps over it: over the one
\* at the end of the line, too.
Stepped(m, s, behind, start) ==
    LET end == WordEnd(s, behind, m.ptr)
    IN [ptr  |-> end + 1,
        args |-> [m.args EXCEPT !.ends = @ \union {end},
                                !.arguments = IF m.args.done THEN @ ELSE Append(@, start)]]

RECURSIVE Walk(_, _, _)
Walk(w, s, behind) ==
    LET start == NextArg(s, behind, w.ptr)
    IN CASE At_line(s, behind, start) = "0" -> w.args
         [] At_line(s, behind, start) = "&" -> [w.args EXCEPT !.background = TRUE]
         [] OTHER -> Walk(Stepped(Marked([w EXCEPT !.ptr = start], s, behind), s, behind, start),
                          s, behind)

\* The string at index i once the walk is over.
StringAt(r, s, behind, i) ==
    LET end[j \in i..(Len(s) + Len(behind) + 4)] ==
            IF j \in r.ends \/ At_line(s, behind, j) = "0" THEN j ELSE end[j + 1]
    IN [k \in 1..(end[i] - i) |-> At_line(s, behind, i + k - 1)]

\* The program that is looked for is the string at the beginning of the line,
\* spaces and all.
Argv(r, s, behind) ==
    LET Named(i, way) == IF i = 0 THEN Unset ELSE <<StringAt(r, s, behind, i), way>>
    IN [program    |-> StringAt(r, s, behind, 1),
        arguments  |-> [k \in DOMAIN r.arguments |-> StringAt(r, s, behind, r.arguments[k])],
        stdin      |-> Named(r.stdin, "read"),
        stdout     |-> Named(r.stdout, r.how[1]),
        stderr     |-> Named(r.stderr, r.how[2]),
        background |-> r.background]

create_argv(s, behind) == Argv(Walk([ptr |-> 1, args |-> Blank], s, behind), s, behind)

-----------------------------------------------------------------------------
(* run_executable()                                                        *)

Console_ == <<"console", "both">>
Closed_fd == <<"closed">>
Number_ == [stdin |-> 0, stdout |-> 1, stderr |-> 2]
Order_ == <<"stdin", "stdout", "stderr">>

FreeDescriptors == {d \in ShellDescriptors : descriptors[d] = Closed_fd}

\* The streams that have to be opened, in the order of the code.
ToOpen(p) == SelectSeq(Order_, LAMBDA stream : p[stream] # Unset)

\* The line is typed; it is not a command, or the program is not there, or
\* it is.  Builtins but "exit" change nothing here.  The buffer is cleared
\* after each line, not before the first: what is in it is behind the line,
\* and is the line if nothing was typed.
parse_input ==
    /\ at = "prompt" /\ runs < MaxRuns
    /\ runs' = runs + 1
    /\ \E typed \in Commands, behind \in (IF runs = 0 THEN Garbage_behind ELSE {<<>>}) :
          LET s == IF typed = <<>> THEN behind ELSE typed
          IN /\ typed_line' = s
             /\ behind_line' = IF typed = <<>> THEN <<>> ELSE behind
             /\ parsed' = create_argv(s, behind_line')
             /\ at' \in (IF s = <<>> THEN {"reap"}
                         ELSE IF s[1] = "e" THEN {"exit"} ELSE {"reap", "open"})
    /\ terminal' = IF at' = "open" THEN "oldt" ELSE terminal
    /\ given' = <<>> /\ streams' = <<>>
    /\ UNCHANGED <<descriptors, jobs, waited, leaked>>

\* The next file.
open ==
    /\ at = "open" /\ Len(given) < Len(ToOpen(parsed))
    /\ LET stream == ToOpen(parsed)[Len(given) + 1]
           fd == CHOOSE d \in FreeDescriptors : \A e \in FreeDescriptors : d <= e
       IN /\ FreeDescriptors # {}
          /\ descriptors' = [descriptors EXCEPT ![fd] = parsed[stream]]
          /\ given' = Append(given, fd)
    /\ UNCHANGED <<typed_line, behind_line, parsed, at, streams, jobs, waited, terminal, leaked, runs>>

\* It is not there, or there is no descriptor left.  What was opened before
\* stays open.
open_fails ==
    /\ at = "open" /\ Len(given) < Len(ToOpen(parsed))
    /\ at' = "reap" /\ terminal' = "newt"
    /\ leaked' = (leaked \/ given # <<>>)
    /\ UNCHANGED <<typed_line, behind_line, parsed, descriptors, given, streams, jobs, waited, runs>>

\* dup2() of each, in the order stdin, stdout, stderr, by the child.
Duplicated ==
    FoldLeft(LAMBDA fds, k : [fds EXCEPT ![Number_[ToOpen(parsed)[k]]] = fds[given[k]]],
             descriptors, [k \in DOMAIN given |-> k])

Fresh_pid == CHOOSE n \in 1..(MaxRuns + 1) : \A j \in DOMAIN jobs : jobs[j].pid # n

\* vfork(), and execve() in the child; the parent goes on after it.
vfork ==
    /\ at = "open" /\ Len(given) = Len(ToOpen(parsed)) /\ Len(jobs) < MaxJobs
    /\ streams' = Duplicated
    /\ jobs' = Append(jobs, [pid |-> Fresh_pid, exited |-> FALSE, background |-> parsed.background])
    /\ waited' = IF parsed.background THEN 0 ELSE Fresh_pid
    /\ at' = IF parsed.background THEN "close" ELSE "wait"
    /\ UNCHANGED <<typed_line, behind_line, parsed, descriptors, given, terminal, leaked, runs>>

execve_fails ==
    /\ at = "open" /\ Len(given) = Len(ToOpen(parsed))
    /\ at' = "twins"
    /\ UNCHANGED <<typed_line, behind_line, parsed, descriptors, given, streams, jobs, waited,
                   terminal, leaked, runs>>

\* No process is left.  The result, -1, is a pid to wait for: of any child,
\* and of the first one the kernel finds.
vfork_fails ==
    /\ at = "open" /\ Len(given) = Len(ToOpen(parsed))
    /\ LET any == ~parsed.background /\ jobs # <<>>
       IN /\ waited' = IF any THEN jobs[1].pid ELSE 0
          /\ at' = IF any THEN "wait" ELSE "close"
    /\ UNCHANGED <<typed_line, behind_line, parsed, descriptors, given, streams, jobs,
                   terminal, leaked, runs>>

exits ==
    \E j \in DOMAIN jobs :
       /\ at # "twins" /\ ~jobs[j].exited
       /\ jobs' = [jobs EXCEPT ![j].exited = TRUE]
       /\ UNCHANGED <<typed_line, behind_line, parsed, at, descriptors, given, streams, waited,
                      terminal, leaked, runs>>

\* The child is gone.
waitpid ==
    /\ at = "wait"
    /\ \E j \in DOMAIN jobs :
          /\ jobs[j].pid = waited /\ jobs[j].exited
          /\ jobs' = RemoveAt(jobs, j)
    /\ at' = "close" /\ waited' = 0
    /\ UNCHANGED <<typed_line, behind_line, parsed, descriptors, given, streams, terminal, leaked, runs>>

\* Fault: standard input's file is kept.
ClosedAfter_output == {given[k] : k \in {k \in DOMAIN given : ToOpen(parsed)[k] # "stdin"}}

ClosedAfter == Range(given)

close ==
    /\ at = "close"
    /\ descriptors' = [d \in ShellDescriptors |-> IF d \in ClosedAfter THEN Closed_fd ELSE descriptors[d]]
    /\ at' = "reap" /\ terminal' = "newt"
    /\ UNCHANGED <<typed_line, behind_line, parsed, given, streams, jobs, waited, leaked, runs>>

-----------------------------------------------------------------------------
(* main()                                                                  *)

\* waitpid(-1, WNOHANG), once per line: the first child, if it has exited.
reap ==
    /\ at \in {"reap", "exit"}
    /\ jobs' = IF jobs # <<>> /\ jobs[1].exited THEN Tail(jobs) ELSE jobs
    /\ at' = IF at = "exit" THEN "done" ELSE "prompt"
    /\ terminal' = IF at = "exit" THEN "oldt" ELSE terminal
    /\ UNCHANGED <<typed_line, behind_line, parsed, descriptors, given, streams, waited, leaked, runs>>

\* Lines that are only cut into arguments.
cut ==
    /\ at = "prompt" /\ runs = 0
    /\ \E n \in 1..MaxLine : typed_line' \in [1..n -> LineCharacters]
    /\ parsed' = create_argv(typed_line', <<>>)
    /\ at' = "cut" /\ behind_line' = <<>>
    /\ UNCHANGED <<descriptors, given, streams, jobs, waited, terminal, leaked, runs>>

ShellInit ==
    /\ typed_line = <<>> /\ behind_line = <<>> /\ parsed = create_argv(<<>>, <<>>)
    /\ at = "prompt"
    /\ descriptors = [d \in ShellDescriptors |-> IF d \in 0..2 THEN Console_ ELSE Closed_fd]
    /\ given = <<>> /\ streams = <<>> /\ jobs = <<>> /\ waited = 0
    /\ terminal = "newt" /\ leaked = FALSE /\ runs = 0

ShellNext ==
    \/ parse_input \/ open \/ open_fails \/ vfork \/ execve_fails \/ vfork_fails
    \/ exits \/ waitpid \/ close \/ reap \/ cut

ShellSpec == ShellInit /\ [][ShellNext]_shell_vars

-----------------------------------------------------------------------------
(* Properties                                                              *)

\* The words of a line, and what they say: arguments up to a redirection or
\* "&"; a mark is at the beginning of a word, its target the rest of the
\* word or the next one.
Words_of(s) ==
    LET split == FoldLeft(LAMBDA acc, ch : IF ch = " " THEN Append(acc, <<>>)
                                           ELSE Append(Front(acc), Append(Last(acc), ch)),
                          <<<<>>>>, s)
    IN SelectSeq(split, LAMBDA word : word # <<>>)

Marks_ == {<<">">>, <<">", ">">>, <<"2", ">">>, <<"2", ">", ">">>, <<"<">>}
Longest(word) ==
    LET fit == {m \in Marks_ : IsPrefix(m, word)}
    IN IF fit = {} THEN <<>> ELSE CHOOSE m \in fit : \A o \in fit : Len(o) <= Len(m)
StreamOf(mark) == IF mark = <<"<">> THEN "stdin" ELSE IF mark[1] = "2" THEN "stderr" ELSE "stdout"
WayOf(mark) == IF mark = <<"<">> THEN "read" ELSE IF Last(mark) = ">" /\ Len(mark) >= 2 /\ mark[Len(mark) - 1] = ">"
                                              THEN "append" ELSE "write"

RECURSIVE Meant(_, _)
Meant(words, r) ==
    LET mark == Longest(words[1])
        rest == SubSeq(words[1], Len(mark) + 1, Len(words[1]))
        target == IF rest # <<>> THEN rest ELSE IF Len(words) > 1 THEN words[2] ELSE <<>>
        left == IF rest # <<>> \/ Len(words) = 1 THEN Tail(words) ELSE Tail(Tail(words))
    IN CASE words = <<>> -> r
         [] words # <<>> /\ words[1][1] = "&" -> [r EXCEPT !.background = TRUE]
         [] words # <<>> /\ mark # <<>> ->
                Meant(left, [r EXCEPT ![StreamOf(mark)] = IF target = <<>> THEN Unset
                                                          ELSE <<target, WayOf(mark)>>,
                                      !.done = TRUE])
         [] OTHER -> Meant(Tail(words), IF r.done THEN r ELSE [r EXCEPT !.arguments = Append(@, words[1])])

Meaning_of(s) ==
    Meant(Words_of(s), [arguments |-> <<>>, stdin |-> Unset, stdout |-> Unset, stderr |-> Unset,
                        background |-> FALSE, done |-> FALSE])

\* A target that begins with a mark is another redirection to the code.
Plain_line(s) ==
    LET words == Words_of(s)
    IN \A k \in DOMAIN words :
          LET mark == Longest(words[k])
              rest == SubSeq(words[k], Len(mark) + 1, Len(words[k]))
          IN mark # <<>> =>
               /\ Longest(rest) = <<>> /\ (rest # <<>> => rest[1] # "&")
               /\ rest = <<>> /\ k < Len(words) => Longest(words[k + 1]) = <<>> /\ words[k + 1][1] # "&"

\* shell.c:104-227, 243-353: a line means what its words say, wherever the
\* spaces are; the program is the first argument unless the line begins with
\* a space.  The program gets the console or the files of the line as its
\* three streams, in the settings the shell was started with; the shell
\* keeps its own, waits for its foreground child before it prompts again,
\* and has closed what it opened for the child unless one open() failed.
ShellRight ==
    /\ Plain_line(typed_line) /\ behind_line = <<>> =>
         LET meant == Meaning_of(typed_line)
         IN /\ \A field \in {"arguments", "stdin", "stdout", "stderr", "background"} :
                  parsed[field] = meant[field]
            /\ parsed.arguments # <<>> /\ typed_line[1] # " " => parsed.program = parsed.arguments[1]
    /\ streams # <<>> =>
         \A stream \in {"stdin", "stdout", "stderr"} :
            streams[Number_[stream]] = IF parsed[stream] = Unset THEN Console_ ELSE parsed[stream]
    /\ \A d \in 0..2 : descriptors[d] = Console_
    /\ at \in {"prompt", "done"} =>
         /\ leaked \/ \A d \in ShellDescriptors \ 0..2 : descriptors[d] = Closed_fd
         /\ \A j \in DOMAIN jobs : jobs[j].background
    /\ at = "wait" => terminal = "oldt"
    /\ at = "prompt" => terminal = "newt"

=============================================================================
