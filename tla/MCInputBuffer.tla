---------------------------- MODULE MCInputBuffer ----------------------------
(* Small instances of InputBuffer. *)
EXTENDS InputBuffer

\* Every class next to every buffer boundary: CR LF, lone CR, lone LF, an
\* empty line, an unterminated last line, LF LF.
LineSources ==
  {<<"other", "cr", "lf", "lf", "other">>, <<"other", "cr", "cr", "lf">>}

LineCalls   == {"eof", "getline", "to_output", "attach"}
ReaderCalls == {"read", "ensureRead", "readByte", "getByte", "eof",
                "initbuf", "set_bufsize", "resetbuf", "attach"}
AllReaderCalls == LineCalls \cup ReaderCalls
===============================================================================
