---------------------------- MODULE MCSourceScan ----------------------------
(* Keys on both sides of zero and with gaps, chunks that end inside and at *)
(* the end of a range, up to two changes by other sessions at any point.   *)
EXTENDS SourceScan

MCKeys == -2..4

MCScan(driver, paging, parts, readers, changes) ==
  [driver |-> driver, paging |-> paging, parts |-> parts, readers |-> readers,
   chunk_size |-> 2, rows |-> {-1, 0, 1, 3, 4}, changes |-> changes]

MCScans ==
  {MCScan("ntile", "keyset", p, r, 2) : p \in 1..3, r \in 1..2}
    \cup {[MCScan("ntile", "keyset", 1, 3, 2) EXCEPT !.rows = s] : s \in {{-2, -1}, {1}, {0, 4}}}
    \cup {MCScan("ntile", "offset", 1, r, 0) : r \in 1..2}
    \cup {MCScan("minmax", "keyset", 1, 2, 1)}

MinMaxScans == {MCScan("minmax", "keyset", 2, 1, 0)}
=============================================================================
