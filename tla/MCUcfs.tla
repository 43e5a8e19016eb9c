----------------------------- MODULE MCUcfs ---------------------------------
(* Constants for the runs of Ucfs: /dev with two handles, the second   *)
(* without a device, and /bin with one program                             *)
EXTENDS Ucfs, TLC

CONSTANTS root, dev, bin, init, devroot, tty0, gone, sector0, sector1

MCEntries == root :> (".." :> root @@ "dev" :> dev @@ "bin" :> bin)
          @@ dev :> (".." :> root)
          @@ bin :> (".." :> root @@ "init" :> init)
MCNodes == "tty0" :> tty0 @@ "gone" :> gone

MCPaths == {<<"bin", "init">>, <<"dev", "tty0">>, <<"..", "bin">>, <<".", "gone">>}

MCNumBlocks == init :> 3
MCSize == init :> 7

\* the inode of the program is in the second block of the inode table
MCSector == [n \in Ino \cup {None} |-> IF n = init THEN sector1 ELSE sector0]

\* a block that is no index holds small numbers
MCForeign == [b \in NoIndex |-> [k \in 0..(BlockMod - 1) |-> IF k = 1 THEN None ELSE bin]]

\* offset and count: 12 is block 4, and 0 in its 8 bits (2 here)
Request(o, c) == [offset |-> o, count |-> c]
MCRequests == {Request(0, 9), Request(0, 5), Request(1, 3), Request(1, 5),
               Request(8, 1), Request(9, 3), Request(12, 1)}

Sym == Permutations(Proc)
=============================================================================
