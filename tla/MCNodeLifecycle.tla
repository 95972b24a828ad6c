-------------------------- MODULE MCNodeLifecycle --------------------------
(* Instances of NodeLifecycle for TLC: a mirror written with and without    *)
(* its trailing slash, one only the site serves, one only the config has.   *)
EXTENDS NodeLifecycle, TLC

CONSTANTS h1, h2, x, xSlash, y, z

MCUrls == {x, xSlash, y, z}
MCTrim == [u \in MCUrls |-> IF u = xSlash THEN x ELSE u]

Good(u) == [url |-> u, usable |-> TRUE]
\* The site serves x with a slash, y, and an item that is filtered out.
MCFeeds == {<<Good(xSlash), Good(y)>>, <<Good(y), [url |-> z, usable |-> FALSE]>>}
OneFeed == {<<Good(y)>>}

\* What nodes.yaml may name: one mirror or another; two, of which one serves
\* both registries, or none.
MCConfigs == {<<x>>, <<z>>}
TwoOrNone == {<<xSlash, z, z>>, <<>>}

\* A query of the nodes table may fail, which leaves its rows out.
NoRows == {<<>>}
OneRow == {<<>>, <<z>>}

InPlace     == {"inPlace"}
ByRename    == {"replace"}
EitherMode  == {"inPlace", "replace"}

HandlerSymmetry == Permutations(Handlers)
=============================================================================
