------------------------------ MODULE MCConfig ------------------------------
(* Files of up to two lines, the second for the key of the first; lines of  *)
(* every kind; a uint16_t has 4 bits.                                       *)
EXTENDS Config

Number(k, n) == [key |-> k, number |-> n]
Text(k, t)   == [key |-> k, text |-> t]
Flag(k, f)   == [key |-> k, flag |-> f]

MCLines ==
  {Blank, [is |-> "nodelim"],
   Number("keepalive_timeout", 3), Flag("dir_listing", TRUE), Text("dir_listing", <<"r">>),
   Number("http_port", 3), Number("http_port", 16), Text("http_port", <<"r">>),
   Number("conn_queue_size", 0), Number("conn_queue_size", 5), Number("conn_queue_size", 9),
   Text("lock_file_path", <<"/", "r">>), Text("lock_file_path", << >>),
   Text("server_user", <<"w", "w", "w">>), Text("server_user", <<"r">>)}

SameKey(l, m) == "key" \in DOMAIN l /\ "key" \in DOMAIN m /\ l.key = m.key

MCFiles == {<< >>} \cup {<<l>> : l \in MCLines} \cup {p \in MCLines \X MCLines : SameKey(p[1], p[2])}

MCDefaults ==
  [http_port |-> 8, conn_queue_size |-> 4, lock_file_path |-> <<"/", "r", "/">>,
   server_user |-> <<"w", "w">>]

MCMaxLen == [lock_file_path |-> 5, server_user |-> 3]
=============================================================================
