------------------------------ MODULE MCBrowse -------------------------------
(* MdnsBrowse for TLC: one service, an instance that comes, moves to another
   host and changes its text. *)
EXTENDS MdnsBrowse

Record(t, n, d) == [type |-> t, service |-> "rtk", name |-> n, data |-> d, ttl |-> 2]

MCPackets ==
  {<<Record("SRV", "i1", "h1"), Record("TXT", "i1", "t1"), Record("A", "h1", 1)>>,
   <<Record("SRV", "i1", "h2"), Record("TXT", "i1", "t2"), Record("A", "h2", 2)>>}
=============================================================================
