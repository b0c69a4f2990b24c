---------------------------- MODULE DominatorsMC ----------------------------
(* Instances of Dominators: flow graphs of three to five blocks.           *)
EXTENDS Dominators, TLC

\* Words of three bits: a graph of four blocks has rows of two words.
MCW == 3

\* A block without a listing whose edge still comes into block 1.
Stale == [n |-> 3, entry |-> 0, listed |-> {1},
          order |-> (0 :> 0 @@ 1 :> 1 @@ 2 :> NoBlock),
          preds |-> (0 :> {} @@ 1 :> {0, 2} @@ 2 :> {})]

\* A loop 1 -> 2 -> 1 that is visited against its direction; 3 is unlisted.
Loop == [n |-> 4, entry |-> 0, listed |-> {1, 2},
         order |-> (0 :> 2 @@ 1 :> 1 @@ 2 :> NoBlock @@ 3 :> 0),
         preds |-> (0 :> {} @@ 1 :> {0, 2} @@ 2 :> {1, 3} @@ 3 :> {})]

\* A diamond with all blocks listed, and one that is not visited.
Diamond == [n |-> 5, entry |-> 0, listed |-> {1, 2, 3, 4},
            order |-> (0 :> 3 @@ 1 :> 0 @@ 2 :> 2 @@ 3 :> 1 @@ 4 :> NoBlock),
            preds |-> (0 :> {} @@ 1 :> {0} @@ 2 :> {0, 3} @@ 3 :> {1, 2}
                       @@ 4 :> {4})]

\* A chain 1 -> 2 -> 3 visited against its direction, and then a block that has
\* its row at once: the last block of a pass does not change, others still do.
Chain == [n |-> 5, entry |-> 0, listed |-> {1, 2, 3, 4},
          order |-> (0 :> 3 @@ 1 :> 2 @@ 2 :> 1 @@ 3 :> 0 @@ 4 :> 4),
          preds |-> (0 :> {} @@ 1 :> {0} @@ 2 :> {1} @@ 3 :> {2} @@ 4 :> {0})]

\* The first numbered block is not the entry.
Late == [n |-> 3, entry |-> 2, listed |-> {0},
         order |-> (0 :> 0 @@ 1 :> 2 @@ 2 :> NoBlock),
         preds |-> (0 :> {1, 2} @@ 1 :> {} @@ 2 :> {0})]

MCPrograms == {<<Stale, Late>>, <<Loop>>, <<Diamond, Stale>>, <<Chain>>}

\* Texts: none, too short for the second call, long enough, with junk.
MCHacks == {<<>>, <<"1">>, <<"0", "junk", "1", "1">>, <<"1", "0", "junk", "1", "1">>,
            <<"0", "1", "1", "junk", "1", "0", "junk">>}

=============================================================================
