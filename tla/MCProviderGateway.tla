-------------------------- MODULE MCProviderGateway --------------------------
(* An instance of ProviderGateway for TLC. *)
EXTENDS ProviderGateway

CONSTANTS s, w, n      \* keys: a source, a witness and a new one

home == [origin |-> "https://a", chain |-> "0x1", account |-> "alice"]

elsewhere == [home EXCEPT !.origin = "https://b"]

MCViews == {home, elsewhere}

Transfer(account) ==
    [method |-> "eth_sendTransaction", account |-> account, to |-> "carol", value |-> 1,
     data |-> [shape |-> "empty"]]

Approval ==
    [method |-> "eth_sendTransaction", account |-> "alice", to |-> "token", value |-> 0,
     data |-> [shape |-> "approve", address |-> "carol", number |-> 1]]

MCRpcs == {Transfer("alice"), Transfer("bob"), Approval}

MCPolicy ==
    [enabled |-> TRUE, killSwitch |-> FALSE, chain |-> "0x1", origins |-> {"https://a"},
     targets |-> {"token"}, recipients |-> {"carol"}, spenders |-> {"carol"}, contracts |-> {},
     maxNative |-> 1, maxToken |-> 1, denyUnlimited |-> TRUE, denyOperator |-> TRUE,
     simulate |-> {}]

\* The source and the witness are enrolled.
MCFirstIdentities ==
    {[k \in Keys |-> CASE k = s -> NewRecord("source", 0, 2, None)
                      [] k = w -> NewRecord("witness", 0, 2, None)
                      [] k = n -> None]}

Receipt(run, k, rpc, occurred, outcome) ==
    [run |-> run, source |-> s, occurred |-> occurred, phase |-> "preflight", outcome |-> outcome,
     action |-> WalletGuardIntent(k, home, rpc)]

\* What an honest source and witness make.
Signed(receipt, received, validFor, mode) ==
    LET envelope == CreateSourceEnvelope(receipt, s)
    IN  [envelope |-> envelope, ack |-> CreateWitnessAck(envelope, w, received, validFor, mode)]

\* Good evidence for each request, of one run or of several, some of it ending
\* before or after the keys do; evidence for the approval; and evidence that is refused,
\* dry_run, or not signed by its source.
MCEvidence ==
    {Signed(Receipt(x[1], x[2], Transfer("alice"), 0, "allow"), x[3], x[4], "witnessed") :
        x \in {<<1, 1, 0, 2>>, <<1, 1, 0, 1>>, <<1, 2, 0, 2>>, <<2, 2, 1, 2>>, <<3, 3, 0, 2>>}}
    \union {Signed(Receipt(1, 1, Approval, 0, "allow"), 0, 2, "witnessed"),
            Signed(Receipt(1, 1, Transfer("alice"), 0, "deny"), 0, 2, "witnessed"),
            Signed(Receipt(1, 1, Transfer("alice"), 0, "allow"), 0, 2, "dry_run"),
            [Signed(Receipt(1, 1, Transfer("alice"), 0, "allow"), 0, 2, "witnessed")
                EXCEPT !.envelope.signature = None]}
=============================================================================
