------------------------- MODULE MCRequestDispatch -------------------------
(* Small instances of RequestDispatch for TLC. Requests are named for what  *)
(* they ask for: write or read, serialized by key "k" or "l", or unkeyed.   *)
EXTENDS RequestDispatch

CONSTANTS write1, read1, read2, write2, other, free

MCKeyOf == [r \in Requests |-> CASE r = other -> "l"
                                 [] r = free -> Unkeyed
                                 [] OTHER -> "k"]
MCAccessOf == [r \in Requests |-> IF r \in {read1, read2} THEN "SharedRead"
                                                         ELSE "Exclusive"]
MCConnOf == [r \in Requests |-> IF r \in {write1, read1, free} THEN "c"
                                                             ELSE "d"]
=============================================================================
