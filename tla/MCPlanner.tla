----------------------------- MODULE MCPlanner -----------------------------
(* Instances of Planner for TLC: five files of a few bytes each.           *)
EXTENDS Planner

MCFile == 1 .. 5

Named(size, packed, dev, ino, nlink) ==
  [size |-> size, packed |-> packed, dev |-> dev, ino |-> ino, nlink |-> nlink]
Plain(size, packed) == Named(size, packed, 1, 0, 1)

\* Two names of one file; a name of a file of another filesystem with the same
\* inode number, whose other name is outside the source; two plain files.
LinkedTree(size, packed) ==
  <<Named(size[1], packed[1], 1, 7, 2), Named(size[1], packed[1], 1, 7, 2),
    Named(size[2], packed[2], 2, 7, 2), Plain(size[3], packed[3]), Plain(size[4], packed[4])>>

\* Each file is stored as it is or compressed to half.
LinkedTrees ==
  UNION {{LinkedTree(size, packed) :
            packed \in {[i \in 1 .. 4 |-> IF i \in raw THEN size[i] ELSE size[i] \div 2] :
                          raw \in SUBSET (1 .. 4)}} :
           size \in {<<20, 12, 10, 7>>, <<9, 20, 9, 0>>, <<20, 19, 9, 3>>, <<22, 22, 21, 21>>}}

\* The superblock and tables, and the bytes of each file once.
MCImageSize(t, fs) ==
  1 + MapThenSumSet(LAMBDA p : t[p].packed,
        {p \in fs : \A q \in fs : q < p => ~(t[p].ino # 0 /\ t[p].ino = t[q].ino /\ t[p].dev = t[q].dev)})
=============================================================================
