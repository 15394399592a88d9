--------------------------- MODULE MCRemoteFetch ---------------------------
(* A cache directory as earlier runs leave it: empty, complete, or with a table
   of another size than the manifest's. *)
EXTENDS RemoteFetch

MCFiles(hm, stats) == [n \in Names |-> IF n = "hm" THEN hm ELSE stats]
MCEmpty == {MCFiles("absent", "absent")}
MCAny == {MCFiles("absent", "absent"), MCFiles("good", "good"), MCFiles("other", "good")}
=============================================================================
