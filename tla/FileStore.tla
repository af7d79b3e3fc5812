------------------------------- MODULE FileStore -------------------------------
(***************************************************************************)
(* What kernel/fs/dos33fs promises the files of a disk: each is a sequence *)
(* of bytes of its own, changed only by an operation on that file, and     *)
(* what a file gains by growing is zero.                                   *)
(***************************************************************************)
EXTENDS Integers

CONSTANTS
    Entries,   \* the files a disk can have
    Values,    \* the bytes that programs write
    MaxSize,   \* the longest file
    NoFile

VARIABLE content   \* of each file, a function of the offset; or NoFile

Bytes == Values \cup {0}

Create(e) ==
    /\ content[e] = NoFile
    /\ content' = [content EXCEPT ![e] = [i \in 0..-1 |-> 0]]

Resize(e, n) ==
    /\ content[e] # NoFile
    /\ content' = [content EXCEPT ![e] =
          [i \in 0..(n - 1) |-> IF i \in DOMAIN content[e] THEN content[e][i] ELSE 0]]

\* The bytes from offset a up to b, which the file has, become v.
Overwrite(e, a, b, v) ==
    /\ content[e] # NoFile
    /\ a..(b - 1) \subseteq DOMAIN content[e]
    /\ content' = [content EXCEPT ![e] =
          [i \in DOMAIN content[e] |-> IF i \in a..(b - 1) THEN v ELSE content[e][i]]]

Remove(e) ==
    /\ content[e] # NoFile
    /\ content' = [content EXCEPT ![e] = NoFile]

Init == content = [e \in Entries |-> NoFile]

Next ==
    \E e \in Entries :
        \/ Create(e)
        \/ Remove(e)
        \/ \E n \in 0..MaxSize : Resize(e, n)
        \/ \E a, b \in 0..MaxSize, v \in Values : Overwrite(e, a, b, v)

Spec == Init /\ [][Next]_content

=============================================================================
