------------------------------ MODULE MCServer -------------------------------
(* Small instances of Server for TLC. *)
EXTENDS Server

\* One command that two servers know, one that only one knows, one with a
\* wrong argument, and that of week 7.
MCRequest == {<<"gettime", "">>, <<"auth2", "id,name">>, <<"auth", "id,name">>,
              <<"getdatetime", "">>}

=============================================================================
