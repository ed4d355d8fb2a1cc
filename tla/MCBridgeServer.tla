--------------------------- MODULE MCBridgeServer ---------------------------
EXTENDS BridgeServer, TLC

\* Requests, views and hashes are interchangeable.
Symmetry == Permutations(Requests) \union Permutations(Views) \union Permutations(Hashes)

\* What the server answered does not matter to it nor to a client that may send
\* anything.
View == <<srv, op, amb, transport, disk, queue, writes,
          {<<r, req[r].kind, req[r].body, req[r].at>> :
              r \in {q \in Requests : req[q].at \notin {"idle", "replied"}}}>>
=============================================================================
