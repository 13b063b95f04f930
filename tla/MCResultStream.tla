--------------------------- MODULE MCResultStream ---------------------------
(* Model-checking instances of ResultStream. *)
EXTENDS ResultStream

\* Every file of up to five bytes over data and newline, and some with carriage
\* returns, with a malformed line, or above the byte limit.
AllResultFiles ==
  SeqOf({"x", "n"}, 5) \cup
  {NULL, <<"r", "n", "x", "r", "n">>, <<"x", "n", "!">>, <<"x", "n", "x", "n", "x", "n">>}
SomeErrorFiles == {NULL, << >>, <<"y">>, <<"n", "y", "n">>}

\* Revisions of one batch: the first two output files agree on the first record.
Versions == {<<"x", "n", "n", "x">>, <<"x", "n", "n", "y", "n">>, <<"x", "n", "x">>,
             <<"y", "n", "x">>}
ErrorVersions == {NULL, <<"y">>, <<"x", "n", "y">>}
AllRevisions == [result : Versions, error : ErrorVersions]

AllFiles == AllResultFiles \cup Versions
AllErrorFiles == SomeErrorFiles \cup ErrorVersions
=============================================================================
