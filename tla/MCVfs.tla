-------------------------------- MODULE MCVfs --------------------------------
(* Two processes, which have inherited two Files on one file; that file of two     *)
(* clusters, an empty file, a free slot, a directory.                              *)
EXTENDS Vfs, TLC

MCNames == {"a", "b", "d", "n"}
MCOpened == <<"a", "a">>
MCAbsolute == ("a" :> "/a") @@ ("b" :> "/b") @@ ("d" :> "/d") @@ ("n" :> "/n")
MCStored == ("a" :> "A") @@ ("b" :> "B") @@ ("d" :> "D") @@ ("n" :> "N")
            @@ ("/a" :> "/A") @@ ("/b" :> "/B") @@ ("/d" :> "/D") @@ ("/n" :> "/N")

Blank == [i \in 1..ClusterLen |-> Zero]
Old == [i \in 1..ClusterLen |-> Byte(0)]
DirD == << Entry(DOT, TRUE, Root, 0), Entry(DOT_DOT, TRUE, 0, 0), Zero, Zero >>
Image ==
  [s \in {FatSector} \cup Cluster |->
     CASE s = FatSector -> [c \in 0..(TotalClusters + 1) |->
                              CASE c \in {0, 1, 2, 4, 5} -> EOC [] c = 3 -> 4 [] OTHER -> 0]
       [] s = 2 -> << Entry("A", FALSE, 3, 5), Entry("B", FALSE, 0, 0),
                      Entry(DELETED, FALSE, 0, 0), Entry("D", TRUE, 5, 0) >>
       [] s \in {3, 4} -> Old
       [] s = 5 -> DirD
       [] s = 6 -> [Blank EXCEPT ![1] = Entry("X", FALSE, 3, 5)]  \* a directory that is gone
       [] OTHER -> Blank]
MCDisks == {Image}

\* Nothing is claimed of a behaviour beyond the first of the named ways to lose data.
Sound == broken = {}
==============================================================================
