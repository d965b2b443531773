---------------------------- MODULE MCUdpRecords ----------------------------
EXTENDS UdpRecordsProps

CONSTANTS hi, lo, all

Good(bodies, values) ==
  [src : {"ep"}, magic : {TRUE}, known : {TRUE}, body : bodies, v : values]

\* whole bodies, one of them longer than the first buffer, one that is cut short,
\* and a length that wraps; then one shorter than a header, one that is not ours,
\* one of an unknown block, and one of another sender
MCDatagrams ==
  Good({<<1, 1>>, <<3, 3>>, <<4, 4>>}, {1, 2}) \cup Good({<<3, 1>>}, {1})
  \cup Good({<<14, 0>>, <<1, -1>>}, {1})
  \cup {[src |-> "ep", magic |-> FALSE, known |-> TRUE, body |-> <<3, 3>>, v |-> 1],
        [src |-> "ep", magic |-> TRUE, known |-> FALSE, body |-> <<3, 3>>, v |-> 1],
        [src |-> "other", magic |-> TRUE, known |-> TRUE, body |-> <<3, 3>>, v |-> 1]}
MCDatabases == {{"register", "string"}, {"waveform"}, {"output"}}
MCOffset == [r \in Readers |-> IF r = "string" THEN 0 ELSE 1]
MCOutMask == [o \in {hi, lo, all} |-> IF o = hi THEN {1} ELSE IF o = lo THEN {2} ELSE {}]
=============================================================================
