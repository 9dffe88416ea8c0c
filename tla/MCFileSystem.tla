---------------------------- MODULE MCFileSystem ----------------------------
(***************************************************************************)
(* Instances of FileSystem with pages of two bytes, one of which is the    *)
(* metadata in a file's first page.                                        *)
(***************************************************************************)
EXTENDS FileSystem

A == <<"a">>
B == <<"B">>
Long == <<"c", "d">>

NoCharacter == <<>>

TwoNames == {A, B}

\* The bytes of B look like the marker.
LettersB == {B}

\* Names of different lengths.
ShortAndLong == {A, Long}

=============================================================================
