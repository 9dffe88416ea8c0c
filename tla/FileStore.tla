----------------------------- MODULE FileStore -----------------------------
(***************************************************************************)
(* What the file system of base/lib/fs promises about the files that are   *)
(* on the flash, that is, what a power cut leaves: a set of named byte     *)
(* sequences.  Every call changes one file at most, the one it names.      *)
(***************************************************************************)
EXTENDS Integers, Sequences

CONSTANTS Name

VARIABLE files      \* the content of every file that exists

Init == files = [n \in {} |-> <<>>]

With(old, n, content) ==
    [m \in DOMAIN old \cup {n} |-> IF m = n THEN content ELSE old[m]]

\* A new file is empty.
Create(n, old, new) ==
    /\ n \notin DOMAIN old
    /\ new = With(old, n, <<>>)

\* What was appended is saved, all of it, when the file is closed.
Save(n, old, new) ==
    /\ n \in DOMAIN old \cap DOMAIN new
    /\ Len(new[n]) >= Len(old[n])
    /\ SubSeq(new[n], 1, Len(old[n])) = old[n]
    /\ new = With(old, n, new[n])

\* Formatting removes one file after the other.
Remove(n, old, new) ==
    /\ n \in DOMAIN old
    /\ new = [m \in DOMAIN old \ {n} |-> old[m]]

\* A call that fails, or that changes no file.
Nothing(old, new) == new = old

Step(old, new) ==
    \/ Nothing(old, new)
    \/ \E n \in Name :
           Create(n, old, new) \/ Save(n, old, new) \/ Remove(n, old, new)

Next == Step(files, files')

Spec == Init /\ [][Next]_files

=============================================================================
