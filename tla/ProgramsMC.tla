----------------------------- MODULE ProgramsMC -----------------------------
(* Instances of the small programs for TLC.                                *)
EXTENDS Programs, Sequences, TLC

MCLineOf == [p \in Producers |-> IF p = CHOOSE q \in Producers : TRUE THEN 1 ELSE 0]
MCChunksOf == [p \in Producers |-> 2]

MCRuns == {<<1, 1>>, <<2, 3>>, <<3, 2>>}

\* width, height, max and pixels
Numbers ==
  {<<0, 2, 1>>, <<1, 1>>, <<1, 1, 300>>, <<1, 1, 7>>, <<2>>, <<2, 2>>, <<2, 2, 1, 1, 0, 1>>,
   <<2, 2, 200, 1, 0, 201, 300>>, <<2, 2, 200, 1, 0, 201, 300, 1>>, <<3, 1, 255, 1, 2, 3>>,
   <<2, 3, 9, 1, 2, 3, 4, 5, 6>>, <<1, 2, 255, 1, 2>>}

MCFiles ==
  [words : {<<<<"junk", 0>>>>}
             \cup {<<<<"P2", 0>>>> \o [i \in DOMAIN ns |-> <<"number", ns[i]>>] : ns \in Numbers},
   closed : BOOLEAN]
\* the root has two directories, one of them with another; f5 is not text
MCDirs == {"main", "root", "a", "b", "c"}
MCTop == "main"
MCTextFiles == {"f0", "f1", "f2", "f3"}
MCEntries ==
  "main" :> {"root"} @@ "root" :> {"a", "c", "f0"} @@ "a" :> {"b", "f1"}
    @@ "b" :> {"f2", "f5"} @@ "c" :> {"f3"}
=============================================================================
