---------------------------- MODULE MCDirectory ----------------------------
(***************************************************************************)
(* A partition that begins at sector 3: four sectors before the data, then *)
(* the root (cluster 2), the directory d (3), in it a file x of clusters 4 *)
(* and 10 and a file f of clusters 5, 8, 9, 11 and 12.  The clusters 6 and *)
(* 7 are free.  Clusters have two sectors, sectors three entries.  Where   *)
(* the code goes astray from a full sector of the root or of d, there is   *)
(* the file f.                                                             *)
(***************************************************************************)
EXTENDS Directory

Entry(n, dir, c) == [name |-> n, dir |-> dir, clus |-> c]

Fresh == [k \in Slots |-> End]

\* What a file has where a directory has entries.
Bytes == [k \in Slots |-> Entry("data", FALSE, 0)]

Card == [s \in 0 .. Base + fs_dataclus2sec(Total + 2) - 1 |->
  CASE s = Base + fs_dataclus2sec(2) -> [Fresh EXCEPT ![0] = Entry("d", TRUE, 3)]
    [] s = Base + fs_dataclus2sec(3) -> [Fresh EXCEPT ![0] = Entry("x", FALSE, 4),
                                                      ![1] = Entry("f", FALSE, 5)]
    [] s \in Base + fs_dataclus2sec(2) + 1 .. Base + fs_dataclus2sec(4) - 1 -> Fresh
    [] OTHER -> Bytes]

Table == [c \in DOMAIN Card |->
  CASE c \in {2, 3, 10, 12} -> EndOfChain
    [] c = 4 -> 10
    [] c = 5 -> 8
    [] c = 8 -> 9
    [] c = 9 -> 11
    [] c = 11 -> 12
    [] OTHER -> Free]

NamesHere == {"", Gone, "d", "f", "x", "y", "z", "data"}

CommandsHere == {
  <<"create", <<"d", "y">>>>, <<"mkdir", <<"d", "z">>>>, <<"rm", <<"d">>>>,
  <<"rm", <<"d", "x">>>>, <<"cat", <<"d", "x">>>>, <<"ls", <<"d">>>>,
  <<"create", <<"y">>>>, <<"rm", <<"y">>>>, <<"rm", <<"d", "y">>>>}
=============================================================================
