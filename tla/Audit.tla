------------------------------- MODULE Audit -------------------------------
(***************************************************************************)
(* The hash-chained audit log: the rows that Logger.Append inserts, in one *)
(* transaction each, and the test that Logger.Verify makes of them.        *)
(* SHA-256 is taken to be free of collisions: a hash is what was hashed.   *)
(***************************************************************************)
EXTENDS Naturals, Sequences

Genesis == <<>>             \* prev_hash of the first row, ""

BadHash(seq, entry, prev) == <<seq, prev>>
Hash(seq, entry, prev) == <<seq, entry, prev>>

Row(seq, entry, prev) ==
    [seq |-> seq, entry |-> entry, prev |-> prev, hash |-> Hash(seq, entry, prev)]

\* Append reads the row with the highest seq and inserts the next one.
Appended(log, entry) ==
    LET last == log[Len(log)]
    IN  Append(log, IF log = <<>> THEN Row(1, entry, Genesis)
                    ELSE Row(last.seq + 1, entry, last.hash))

\* Verify walks the rows in the order of their seq.
Verifies(log) ==
    \A n \in DOMAIN log :
        /\ log[n].seq = n
        /\ log[n].prev = IF n = 1 THEN Genesis ELSE log[n - 1].hash
        /\ log[n].hash = Hash(log[n].seq, log[n].entry, log[n].prev)

\* The log with row n taken out, and with its entry replaced and hashed anew.
WithoutRow(log, n)      == SubSeq(log, 1, n - 1) \o SubSeq(log, n + 1, Len(log))
Edited(log, n, entry) == [log EXCEPT ![n] = Row(n, entry, log[n].prev)]
=============================================================================
