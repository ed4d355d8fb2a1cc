------------------------- MODULE MCReferenceRecords -------------------------
(***************************************************************************)
(* Instances of the four reference components that keep records:           *)
(* WitnessTrust, ExecutionRecorder, ObservationCapture and PolicyControl.  *)
(* They share nothing, so each behaviour explores one of them, its focus.  *)
(***************************************************************************)
EXTENDS WitnessTrust, ExecutionRecorder, ObservationCapture, PolicyControl

CONSTANTS s, w, n,      \* keys
          h1, h2, h3,   \* handles
          c1, c2,       \* captures
          o1, o2        \* operators

VARIABLE focus

vars == <<focus, trustVars, recorderVars, captureVars, controlVars>>

\* Evidence of the source s and the witness w, some of it from before the witness
\* could be enrolled, and some by a key that may succeed the source.
Signed(source, occurred, received, validFor) ==
    LET envelope == CreateSourceEnvelope(
            [run |-> 1, source |-> source, occurred |-> occurred, phase |-> "preflight",
             outcome |-> "allow", action |-> "act"], source)
    IN  [envelope |-> envelope,
         ack |-> CreateWitnessAck(envelope, w, received, validFor, "witnessed")]

MCEvidence == {Signed(s, 0, 0, 2), Signed(s, 0, 1, 1), Signed(s, 1, 1, 2), Signed(n, 1, 1, 2)}

\* More authorizations than the recorder has room for.
MCAuthorizations == 
    {[id |-> "a", issued |-> 0, expires |-> 2], [id |-> "b", issued |-> 1, expires |-> 2],
     [id |-> "c", issued |-> 0, expires |-> 1]}

MCExpectations ==
    {[exec |-> "x", issued |-> 1, expires |-> 2, status |-> "any", effect |-> None],
     [exec |-> "x", issued |-> 0, expires |-> 2, status |-> "success", effect |-> "e"]}

MCObservations ==
    {[exec |-> "x", status |-> "success", effect |-> "e", executed |-> 1, observed |-> 1],
     [exec |-> "x", status |-> "unknown", effect |-> None, executed |-> 1, observed |-> 1],
     [exec |-> "y", status |-> "error", effect |-> "f", executed |-> 0, observed |-> 2]}

MCPolicy ==
    [id |-> "p", enabled |-> TRUE, killSwitch |-> FALSE, chain |-> "0x1", origins |-> {"https://a"},
     targets |-> {}, recipients |-> {"carol"}, spenders |-> {}, contracts |-> {},
     maxNative |-> 1, maxToken |-> 1, denyUnlimited |-> TRUE, denyOperator |-> TRUE,
     simulate |-> {}]

MCPolicies == {MCPolicy, [MCPolicy EXCEPT !.killSwitch = TRUE], [MCPolicy EXCEPT !.id = "q"]}

MCIntents ==
    {WalletGuardIntent(1, [origin |-> "https://a", chain |-> "0x1", account |-> "alice"],
        [method |-> "eth_sendTransaction", account |-> "alice", to |-> "carol", value |-> 1,
         data |-> [shape |-> "empty"]])}

MCInit ==
    /\ focus \in {"trust", "recorder", "observation", "policy"}
    /\ TrustInit /\ RecorderInit /\ CaptureInit /\ ControlInit

MCNext ==
    /\ UNCHANGED focus
    /\ \/ focus = "trust" /\ TrustNext /\ UNCHANGED <<recorderVars, captureVars, controlVars>>
       \/ focus = "recorder" /\ RecorderNext /\ UNCHANGED <<trustVars, captureVars, controlVars>>
       \/ focus = "observation" /\ CaptureNext /\ UNCHANGED <<trustVars, recorderVars, controlVars>>
       \/ focus = "policy" /\ ControlNext /\ UNCHANGED <<trustVars, recorderVars, captureVars>>

MCSpec == MCInit /\ [][MCNext]_vars
=============================================================================
