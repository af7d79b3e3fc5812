-------------------------------- MODULE Programs --------------------------------
(***************************************************************************)
(* What user programs are made of: the C library and its system calls      *)
(* (Calls, Routines, Library); and the programs themselves: the editor     *)
(* (Editor), the shell (Shell), and what is started from it (Tools,        *)
(* Utilities).  As in Platform the parts share no variable and a run is a  *)
(* run of one of them.                                                     *)
(***************************************************************************)
EXTENDS Calls, Routines, Library, Editor, Shell, Tools, Utilities

VARIABLE part

library_vars == <<words_vars, strings_vars, options_vars, heap_vars, lines_vars>>
text_vars    == <<editor_vars, syntax_vars, prompt_vars>>
tool_vars    == <<shell_vars, listing_vars, digest_vars, logo_vars, utility_vars>>

programs_vars == <<part, calls_vars, library_vars, text_vars, tool_vars>>

ProgramsInit ==
    /\ part \in {"calls", "words", "strings", "options", "heap", "lines", "editor", "syntax", "prompt",
                "shell", "listing", "digest", "logo", "utilities"}
    /\ CallsInit /\ WordsInit /\ StringsInit /\ OptionsInit /\ HeapInit /\ LinesInit
    /\ EditorInit /\ SyntaxInit /\ PromptInit /\ ShellInit /\ ListingInit /\ DigestInit /\ LogoInit
    /\ UtilitiesInit /\ (part = "utilities" \/ ut_files = CHOOSE chosen \in First_files : TRUE)

Words_step   == part = "words" /\ WordsNext /\ UNCHANGED <<strings_vars, options_vars, heap_vars, lines_vars>>
Strings_step == part = "strings" /\ StringsNext /\ UNCHANGED <<words_vars, options_vars, heap_vars, lines_vars>>
Options_step == part = "options" /\ OptionsNext /\ UNCHANGED <<words_vars, strings_vars, heap_vars, lines_vars>>
Heap_step    == part = "heap" /\ HeapNext /\ UNCHANGED <<words_vars, strings_vars, options_vars, lines_vars>>
Lines_step   == part = "lines" /\ LinesNext /\ UNCHANGED <<words_vars, strings_vars, options_vars, heap_vars>>
Library_step == Words_step \/ Strings_step \/ Options_step \/ Heap_step \/ Lines_step

Shell_step   == part = "shell" /\ ShellNext /\ UNCHANGED <<listing_vars, digest_vars, logo_vars, utility_vars>>
Listing_step == part = "listing" /\ ListingNext /\ UNCHANGED <<shell_vars, digest_vars, logo_vars, utility_vars>>
Digest_step  == part = "digest" /\ DigestNext /\ UNCHANGED <<shell_vars, listing_vars, logo_vars, utility_vars>>
Logo_step    == part = "logo" /\ LogoNext /\ UNCHANGED <<shell_vars, listing_vars, digest_vars, utility_vars>>
Utility_step == part = "utilities" /\ UtilitiesNext /\ UNCHANGED <<shell_vars, listing_vars, digest_vars, logo_vars>>
Tool_step    == Shell_step \/ Listing_step \/ Digest_step \/ Logo_step \/ Utility_step

Editor_step  == part = "editor" /\ EditorNext /\ UNCHANGED <<syntax_vars, prompt_vars>>
Syntax_step  == part = "syntax" /\ SyntaxNext /\ UNCHANGED <<editor_vars, prompt_vars>>
Prompt_step  == part = "prompt" /\ PromptNext /\ UNCHANGED <<editor_vars, syntax_vars>>
Text_step    == Editor_step \/ Syntax_step \/ Prompt_step

Calls_step   == part = "calls" /\ CallsNext

ProgramsNext ==
    /\ \/ Calls_step /\ UNCHANGED <<library_vars, text_vars, tool_vars>>
       \/ Library_step /\ UNCHANGED <<calls_vars, text_vars, tool_vars>>
       \/ Text_step /\ UNCHANGED <<calls_vars, library_vars, tool_vars>>
       \/ Tool_step /\ UNCHANGED <<calls_vars, library_vars, text_vars>>
    /\ UNCHANGED part

ProgramsSpec == ProgramsInit /\ [][ProgramsNext]_programs_vars

-----------------------------------------------------------------------------

\* What the C library promises its callers, each function in its own module:
\* a system call returns to the program that made it, with its own answer;
\* words are divided, set and copied; strings found, compared and cut; the
\* options of a command line told from its operands; blocks of memory that
\* nobody else has; the lines of a file whole and in order.
LibraryRight ==
    /\ part = "calls" => CallsRight
    /\ part = "words" => WordsRight
    /\ part = "strings" => StringsRight
    /\ part = "options" => OptionsRight
    /\ part = "heap" => HeapRight
    /\ part = "lines" => LinesRight

\* The editor keeps the text that was typed, shows it under the cursor, and
\* calls it saved when the file has it (nano.c:554-606, 736-884, 1064-1102);
\* its colours are what the C code in the rows is, each row by itself
\* (nano.c:286-381) and, as long as none were joined or split, from row to
\* row (nano.c:376-382).  What is typed at a prompt arrives as it was typed,
\* and the screen has the size the terminal says (nano.c:680-734, 965-1062).
EditorRight ==
    /\ part = "editor" => EditsRight /\ CursorShown /\ SavedRight /\ HighlightKept
    /\ part = "syntax" => SyntaxRight
    /\ part = "prompt" => PromptRight

\* The shell reads a line as its words say and gives each program its files
\* (shell.c); ls shows every file once and in columns (ls.c); md5sum's digest
\* is the file's, in whatever pieces it is read (md5sum.c); the picture ll
\* prints is the one that was packed (ll.arm.eabi.s); and cp, cat, hexdump,
\* truncate, chmod, rm and df do what they say (Utilities).
ToolsRight ==
    /\ part = "shell" => ShellRight
    /\ part = "listing" => ListingRight
    /\ part = "digest" => DigestRight
    /\ part = "logo" => LogoRight
    /\ part = "utilities" => UtilitiesRight

=============================================================================
