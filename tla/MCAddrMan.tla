------------------------------ MODULE MCAddrMan ------------------------------
(* Three hosts, one of them with two services; two sources, who lead to two *)
(* new buckets.  Two hosts meet in one slot of each bucket, and two in one  *)
(* tried slot: every collision of the code happens.                         *)
EXTENDS AddrMan

CONSTANTS h1, h2, h3, s1, s2

MCService == {[ip |-> h1, port |-> 1], [ip |-> h1, port |-> 2],
              [ip |-> h2, port |-> 1], [ip |-> h3, port |-> 1]}
MCSource == {s1, s2}
MCNewBucket(ip, source) == IF source = s1 THEN 0 ELSE 1
MCTriedBucket(addr) == IF addr.ip = h3 THEN 1 ELSE 0
MCPosition(addr, new, bucket) ==
  IF ~new THEN 0
  ELSE IF bucket = 0 THEN (IF addr.ip = h1 THEN 0 ELSE 1)
  ELSE (IF addr.ip = h3 \/ addr.port = 2 THEN 0 ELSE 1)
=============================================================================
