--------------------------- MODULE MCOutputBuffer ---------------------------
(* Small instances of OutputBuffer. *)
EXTENDS OutputBuffer

WriterCalls == {"write", "ensureWrite", "writeByte", "flush", "initbuf",
                "set_bufsize", "attach", "destroy"}
LoopCalls   == {"write", "flush", "vprintf", "from_input", "attach", "destroy"}
FailCalls   == WriterCalls \cup LoopCalls
===============================================================================
