----------------------------- MODULE MCArchive -----------------------------
EXTENDS Archive

\* A name above another, so that an entry can be in the way of a later one, and
\* three that are not, so that the limit on all bytes can be crossed for long.
MCNames == {<<"a">>, <<"a", "x">>, <<"b">>, <<"c">>}
=============================================================================
