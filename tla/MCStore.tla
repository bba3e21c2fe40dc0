-------------------------------- MODULE MCStore --------------------------------
(* A behaviour moves one part of the store and leaves the others where they     *)
(* start.                                                                       *)
EXTENDS Store, TLC

CONSTANTS
  Parts,                       \* parts explored
  w1, w2, f1, f2, l1           \* model values

VARIABLE part

MCParts == {"migration", "learning", "dictionary"}
MCLegacyCounts == (w1 :> 1) @@ (w2 :> 0)
MCPhrases == {f1, f2}
MCLayouts == {l1}
\* Two homophones, one of them built in.
MCReadingOf == (w1 :> "a") @@ (w2 :> "a")
MCBuiltin == <<[word |-> w1, frequency |-> 2]>>
MCFiles == {<<[word |-> w2, frequency |-> 3], [word |-> w1, frequency |-> 3]>>}

allVars == <<part, vars, learningVars, wordVars>>

MCInit ==
  /\ part \in Parts /\ Init /\ Learning!Init /\ UserWords!Init
  /\ part # "learning" => scoreRows = <<>> /\ layoutRows = <<>>

MCNext ==
  \/ part = "migration" /\ Next /\ UNCHANGED <<part, learningVars, wordVars>>
  \/ part = "learning" /\ Learning!Next /\ UNCHANGED <<part, vars, wordVars>>
  \/ part = "dictionary" /\ UserWords!Next
       /\ UNCHANGED <<part, vars, learningVars>>

MCSpec == MCInit /\ [][MCNext]_allVars
================================================================================
