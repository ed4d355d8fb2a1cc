------------------------ MODULE ProviderGatewayProofs ------------------------
(***************************************************************************)
(* What ProviderGateway keeps for any requests, views, policy, evidence    *)
(* and bounds: requests under way in any number, while the trusted         *)
(* identities, the context and the clocks change between their steps.      *)
(***************************************************************************)
EXTENDS ProviderGateway, FiniteSetTheorems, TLAPS

RequestPcs == {"unused", "waiting", "settled", "done"}

RequestRecords(results) ==
    [pc : RequestPcs, rpc : Rpcs \union {None}, observed : Gate!Executions \union {None},
     result : results \union {None}, sent : BOOLEAN]

CallRecords == [pc : {"idle", "observing", "executing"}, cap : Calls \union {None}, first : Times]

Forwarded == [cap : Calls, exec : Gate!Executions, first : Times, at : Times]

LogEntries == [id : Calls, view : Views, rpc : Rpcs]

GatewayTypes ==
    /\ request \in [Calls -> RequestRecords(verified)]
    /\ call \in [Calls -> CallRecords]
    /\ capabilityState \in [Calls -> Gate!States]
    /\ DOMAIN binding = Calls
    /\ downstream \in Seq(Forwarded)
    /\ context \in Views
    /\ log \in Seq(LogEntries)

\* What the witness supplier let the capability of a request rest on.
IsBacked(k) ==
    LET r == request[k].result
        b == binding[k]
    IN  /\ r \in verified /\ request[k].rpc \in Rpcs
        /\ b.exec \in Gate!Executions /\ request[k].observed \in {None, b.exec}
        /\ r.receipt.action = b.exec.action /\ r.receipt.occurred <= b.issued
        /\ b.issued <= r.now /\ b.expires <= r.until

ForwardedInWindow(k) ==
    \E j \in DOMAIN downstream : /\ downstream[j].cap = k
                                 /\ binding[k].issued <= downstream[j].at
                                 /\ downstream[j].at < binding[k].expires

\* The gate's call of a request is under way only while the page waits, and it is sent
\* no earlier than the gate's second half.
CallInv ==
    \A k \in Calls :
        /\ call[k].pc # "idle" => request[k].pc = "waiting" /\ call[k].cap = k /\ IsBacked(k)
        /\ call[k].pc = "observing" => ~request[k].sent

\* The log holds each request that was sent, once, with what it rests on.
LogInv ==
    /\ \A i \in DOMAIN log :
          LET k == log[i].id
          IN  /\ request[k].sent /\ IsBacked(k) /\ ForwardedInWindow(k)
              /\ binding[k].exec = Execution(k, log[i].view, log[i].rpc)
              /\ log[i].rpc = request[k].rpc /\ Allows(k, log[i].view, log[i].rpc)
    /\ \A i, j \in DOMAIN log : log[i].id = log[j].id => i = j
    /\ \A k \in Calls : request[k].sent => request[k].pc # "unused"

\* What backs a capability is reserved, and backs no other.
UsedInv ==
    /\ \A k \in Calls : request[k].result # None =>
          /\ request[k].pc # "unused"
          /\ request[k].result.receipt.run \in used.runs
          /\ request[k].result.receipt \in used.receipts
          /\ request[k].result.ack \in used.acks
    /\ \A j, k \in Calls :
          LET a == request[j].result
              b == request[k].result
          IN  a # None /\ b # None /\ j # k =>
                  a.receipt.run # b.receipt.run /\ a.receipt # b.receipt /\ a.ack # b.ack

GatewayInv == GatewayTypes /\ CallInv /\ LogInv /\ UsedInv /\ AdmittedHasRoom

Unsent == {k \in InFlight : ~request[k].sent}

-----------------------------------------------------------------------------
(* What the steps keep of the requests they are not about *)

LEMMA UnsentIsFinite == IsFiniteSet(Unsent) /\ IsFiniteSet(InFlight)
                        /\ Cardinality(Unsent) \in Nat /\ Cardinality(InFlight) \in Nat
<1>1. MaxRequests \in Int
  BY GatewayAssumption
<1>2. IsFiniteSet(Calls)
  BY <1>1, FS_Interval DEF Calls
<1>3. Unsent \in SUBSET Calls /\ InFlight \in SUBSET Calls
  BY DEF Unsent, InFlight
<1>4. IsFiniteSet(Unsent) /\ IsFiniteSet(InFlight)
  BY <1>2, <1>3, FS_Subset
<1> QED
  BY <1>4, FS_CardinalityType

LEMMA RoomIsLeft ==
    ASSUME GatewayInv, Unsent' \subseteq Unsent, log' = log
    PROVE  AdmittedHasRoom'
<1>1. Cardinality(Unsent') <= Cardinality(Unsent)
  BY UnsentIsFinite, FS_Subset
<1>2. IsFiniteSet(Unsent')
  BY UnsentIsFinite, FS_Subset
<1>3. Cardinality(Unsent') \in Nat
  BY <1>2, FS_CardinalityType
<1>4. Len(log) \in Nat
  BY DEF GatewayInv, GatewayTypes
<1>5. Len(log) + Cardinality(Unsent) <= MaxSensitiveCalls
  BY DEF GatewayInv, AdmittedHasRoom, Unsent
<1>6. Len(log) + Cardinality(Unsent') <= MaxSensitiveCalls
  BY <1>1, <1>3, <1>4, <1>5, UnsentIsFinite, GatewayAssumption
<1> QED
  BY <1>6 DEF AdmittedHasRoom, Unsent

\* A request that stays as it is stays backed.
LEMMA StaysBacked ==
    ASSUME NEW k \in Calls, IsBacked(k), verified \subseteq verified', binding'[k] = binding[k],
           request'[k].rpc = request[k].rpc, request'[k].result = request[k].result,
           request'[k].observed = request[k].observed
    PROVE  IsBacked(k)'
  BY DEF IsBacked

LEMMA StaysForwarded ==
    ASSUME GatewayInv, NEW k \in Calls, ForwardedInWindow(k), binding'[k] = binding[k],
           downstream' = downstream \/ \E f \in Forwarded : downstream' = Append(downstream, f)
    PROVE  ForwardedInWindow(k)'
<1>1. downstream \in Seq(Forwarded)
  BY DEF GatewayInv, GatewayTypes
<1>2. PICK j \in DOMAIN downstream : /\ downstream[j].cap = k
                                     /\ binding[k].issued <= downstream[j].at
                                     /\ downstream[j].at < binding[k].expires
  BY DEF ForwardedInWindow
<1>3. j \in DOMAIN downstream' /\ downstream'[j] = downstream[j]
  BY <1>1
<1> QED
  BY <1>2, <1>3 DEF ForwardedInWindow

\* What was sent stays in the log, with what it rests on.
LEMMA LogStays ==
    ASSUME GatewayInv, log' = log, verified \subseteq verified',
           downstream' = downstream \/ \E f \in Forwarded : downstream' = Append(downstream, f),
           \A k \in Calls : request[k].sent =>
               /\ request'[k].sent /\ request'[k].pc # "unused" /\ binding'[k] = binding[k]
               /\ request'[k].rpc = request[k].rpc /\ request'[k].result = request[k].result
               /\ request'[k].observed = request[k].observed,
           \A k \in Calls : ~request[k].sent => ~request'[k].sent
    PROVE  LogInv'
<1>1. \A i \in DOMAIN log : log[i].id \in Calls
  <2>1. \A i \in DOMAIN log : log[i] \in LogEntries
    BY DEF GatewayInv, GatewayTypes
  <2> QED
    BY <2>1 DEF LogEntries
<1>2. \A k \in Calls : request'[k].sent => request'[k].pc # "unused"
  OBVIOUS
<1>3. ASSUME NEW i \in DOMAIN log
      PROVE  LET k == log[i].id
             IN  (/\ request[k].sent /\ IsBacked(k) /\ ForwardedInWindow(k)
                  /\ binding[k].exec = Execution(k, log[i].view, log[i].rpc)
                  /\ log[i].rpc = request[k].rpc /\ Allows(k, log[i].view, log[i].rpc))'
  <2>1. PICK k \in Calls : k = log[i].id
    BY <1>1
  <2>2. /\ request[k].sent /\ IsBacked(k) /\ ForwardedInWindow(k)
        /\ binding[k].exec = Execution(k, log[i].view, log[i].rpc)
        /\ log[i].rpc = request[k].rpc /\ Allows(k, log[i].view, log[i].rpc)
    BY <2>1 DEF GatewayInv, LogInv
  <2>3. IsBacked(k)'
    BY <2>1, <2>2, StaysBacked
  <2>4. ForwardedInWindow(k)'
    BY <2>1, <2>2, StaysForwarded
  <2> QED
    BY <2>1, <2>2, <2>3, <2>4 DEF Execution, Allows
<1>4. \A i, j \in DOMAIN log : log[i].id = log[j].id => i = j
  BY DEF GatewayInv, LogInv
<1> QED
  BY <1>2, <1>3, <1>4 DEF LogInv

LEMMA UsedStays ==
    ASSUME GatewayInv, used' = used,
           \A k \in Calls : request'[k].result # None =>
               request'[k].result = request[k].result /\ request'[k].pc # "unused"
    PROVE  UsedInv'
<1>1. ASSUME NEW k \in Calls, request'[k].result # None
      PROVE  /\ request'[k].pc # "unused" /\ request'[k].result.receipt.run \in used'.runs
             /\ request'[k].result.receipt \in used'.receipts
             /\ request'[k].result.ack \in used'.acks
  BY <1>1 DEF GatewayInv, UsedInv
<1>2. ASSUME NEW i \in Calls, NEW j \in Calls, i # j,
             request'[i].result # None, request'[j].result # None
      PROVE  /\ request'[i].result.receipt.run # request'[j].result.receipt.run
             /\ request'[i].result.receipt # request'[j].result.receipt
             /\ request'[i].result.ack # request'[j].result.ack
  <2>1. /\ request'[i].result = request[i].result /\ request'[j].result = request[j].result
    BY <1>2
  <2> QED
    BY <1>2, <2>1 DEF GatewayInv, UsedInv
<1> QED
  BY <1>1, <1>2 DEF UsedInv

\* Results only get more.
LEMMA ResultsOnlyGrow ==
    ASSUME NEW S, NEW T, S \subseteq T
    PROVE  RequestRecords(S) \subseteq RequestRecords(T)
  BY DEF RequestRecords

\* The host counts the requests under way before it admits another.
LEMMA AdmissionLeavesRoom ==
    ASSUME GatewayInv, NEW k \in Calls, Admitted(k), log' = log,
           \A j \in Calls : j # k => request'[j] = request[j]
    PROVE  AdmittedHasRoom'
<1>1. Len(log) + Cardinality(InFlight) < MaxSensitiveCalls
  BY DEF Admitted, HostAdmits
<1>2. Unsent' \in SUBSET (InFlight \union {k})
  BY DEF Unsent, InFlight
<1>3. /\ IsFiniteSet(InFlight \union {k})
      /\ Cardinality(InFlight \union {k}) <= Cardinality(InFlight) + 1
  <2>1. /\ IsFiniteSet(InFlight \union {k})
        /\ Cardinality(InFlight \union {k}) =
              IF k \in InFlight THEN Cardinality(InFlight) ELSE Cardinality(InFlight) + 1
    BY UnsentIsFinite, FS_AddElement
  <2> QED
    BY <2>1, UnsentIsFinite
<1>4. Cardinality(InFlight \union {k}) \in Nat
  BY <1>3, FS_CardinalityType
<1>5. IsFiniteSet(Unsent') /\ Cardinality(Unsent') <= Cardinality(InFlight \union {k})
  BY <1>2, <1>3, FS_Subset
<1>6. Cardinality(Unsent') \in Nat
  BY <1>5, FS_CardinalityType
<1>7. Len(log) \in Nat /\ MaxSensitiveCalls \in Nat
  BY GatewayAssumption DEF GatewayInv, GatewayTypes
<1>8. Len(log) + Cardinality(Unsent') <= MaxSensitiveCalls
  BY <1>1, <1>3, <1>4, <1>5, <1>6, <1>7, UnsentIsFinite
<1> QED
  BY <1>8 DEF AdmittedHasRoom, Unsent

-----------------------------------------------------------------------------
(* The steps *)

LEMMA GatewayInitially == GatewayInit => GatewayInv
<1> SUFFICES ASSUME GatewayInit PROVE GatewayInv
  OBVIOUS
<1>1. Unused \in RequestRecords(verified)
  BY DEF Unused, RequestRecords, RequestPcs
<1>2. Gate!Idle \in CallRecords
  BY TimeAssumption DEF Gate!Idle, CallRecords, Times
<1>3. GatewayTypes
  BY <1>1, <1>2 DEF GatewayInit, GatewayTypes, Gate!Init, Capabilities, Gate!States
<1>4. \A k \in Calls : call[k].pc = "idle" /\ ~request[k].sent /\ request[k].result = None
                       /\ request[k].pc = "unused"
  BY DEF GatewayInit, Gate!Init, Gate!Idle, Unused
<1>5. DOMAIN log = {} /\ Len(log) = 0
  BY DEF GatewayInit
<1>6. Unsent = {}
  BY <1>4 DEF Unsent, InFlight
<1>7. Cardinality(Unsent) = 0
  BY <1>6, FS_EmptySet
<1>8. AdmittedHasRoom
  BY <1>5, <1>7, GatewayAssumption DEF AdmittedHasRoom, Unsent
<1> QED
  BY <1>3, <1>4, <1>5, <1>8 DEF GatewayInv, CallInv, LogInv, UsedInv

\* The environment: the context and the trusted identities.
LEMMA EnvironmentStep ==
    ASSUME GatewayInv, context' \in Views, verified' = verified,
           UNCHANGED <<gateVars, request, used, log>>
    PROVE  GatewayInv'
<1>1. UNCHANGED <<capabilityState, binding, call, downstream>>
  BY DEF gateVars
<1>2. GatewayTypes' /\ UsedInv' /\ AdmittedHasRoom'
  BY <1>1 DEF GatewayInv, GatewayTypes, UsedInv, AdmittedHasRoom, InFlight
<1>3. CallInv'
  <2>1. ASSUME NEW k \in Calls, IsBacked(k) PROVE IsBacked(k)'
    BY <1>1, <2>1, StaysBacked
  <2> QED
    BY <1>1, <2>1 DEF GatewayInv, CallInv
<1>4. LogInv'
  <2>1. \A k \in Calls : request[k].sent => request[k].pc # "unused"
    BY DEF GatewayInv, LogInv
  <2> QED
    BY <1>1, <2>1, LogStays
<1> QED
  BY <1>2, <1>3, <1>4 DEF GatewayInv

\* A request that is declined or refused has a slot in the log and no capability.
LEMMA DeclinedStep ==
    ASSUME GatewayInv, NEW k \in Calls, Admitted(k),
           request' = [request EXCEPT ![k] = [Unused EXCEPT !.pc = "settled"]],
           verified' = verified, UNCHANGED <<gateVars, context, used, log>>
    PROVE  GatewayInv'
<1> DEFINE new == [Unused EXCEPT !.pc = "settled"]
<1>1. new \in RequestRecords(verified)
  BY ZenonT(60) DEF Unused, RequestRecords, RequestPcs
<1>2. new.pc = "settled" /\ new.result = None /\ ~new.sent
  BY DEF Unused
<1> HIDE DEF new
<1>3. \A j \in Calls : request'[j] = IF j = k THEN new ELSE request[j]
  BY DEF GatewayInv, GatewayTypes, new
<1>4. request' \in [Calls -> RequestRecords(verified)]
  BY <1>1 DEF GatewayInv, GatewayTypes, new
<1>5. request[k].pc = "unused"
  BY DEF Admitted, IsNextId
<1>6. ~request[k].sent /\ call[k].pc = "idle"
  BY <1>5 DEF GatewayInv, LogInv, CallInv
<1>7. UNCHANGED <<capabilityState, binding, call, downstream>>
  BY DEF gateVars
<1>8. GatewayTypes'
  BY <1>4, <1>7 DEF GatewayInv, GatewayTypes
<1>9. CallInv'
  <2>1. ASSUME NEW j \in Calls, j # k, IsBacked(j) PROVE IsBacked(j)'
    BY <1>3, <1>7, <2>1, StaysBacked
  <2> QED
    BY <1>3, <1>6, <1>7, <2>1 DEF GatewayInv, CallInv
<1>10. LogInv'
  BY <1>2, <1>3, <1>6, <1>7, LogStays, ZenonT(60) DEF GatewayInv, LogInv
<1>11. UsedInv'
  <2>1. \A j \in Calls : request[j].result # None => request[j].pc # "unused"
    BY DEF GatewayInv, UsedInv
  <2>2. \A j \in Calls : request'[j].result # None =>
           request'[j].result = request[j].result /\ request'[j].pc # "unused"
    BY <1>2, <1>3, <2>1, ZenonT(60)
  <2> QED
    BY <2>2, UsedStays
<1>12. AdmittedHasRoom'
  BY <1>2, <1>3, <1>5, AdmissionLeavesRoom
<1> QED
  BY <1>8, <1>9, <1>10, <1>11, <1>12 DEF GatewayInv

\* The promise settles and the call of the gate ends.
LEMMA SettledStep ==
    ASSUME GatewayInv, NEW k \in Calls, request[k].pc = "waiting",
           request' = [request EXCEPT ![k].pc = "settled"],
           call' = [call EXCEPT ![k] = Gate!Idle],
           capabilityState' \in [Calls -> Gate!States],
           verified' = verified, UNCHANGED <<binding, downstream, context, used, log>>
    PROVE  GatewayInv'
<1>1. \A j \in Calls : /\ request'[j].pc = (IF j = k THEN "settled" ELSE request[j].pc)
                       /\ request'[j].rpc = request[j].rpc /\ request'[j].result = request[j].result
                       /\ request'[j].observed = request[j].observed
                       /\ request'[j].sent = request[j].sent
  BY DEF GatewayInv, GatewayTypes, RequestRecords
<1>2. request' \in [Calls -> RequestRecords(verified)]
  BY ZenonT(60) DEF GatewayInv, GatewayTypes, RequestRecords, RequestPcs
<1>3. Gate!Idle \in CallRecords /\ Gate!Idle.pc = "idle"
  BY TimeAssumption DEF Gate!Idle, CallRecords, Times
<1>4. call' \in [Calls -> CallRecords]
  BY <1>3 DEF GatewayInv, GatewayTypes
<1>5. call'[k].pc = "idle" /\ \A j \in Calls : j # k => call'[j] = call[j]
  BY <1>3 DEF GatewayInv, GatewayTypes
<1>6. GatewayTypes'
  BY <1>2, <1>4 DEF GatewayInv, GatewayTypes
<1>7. CallInv'
  <2>1. ASSUME NEW j \in Calls, IsBacked(j) PROVE IsBacked(j)'
    BY <1>1, <2>1, StaysBacked
  <2> QED
    BY <1>1, <1>5, <2>1 DEF GatewayInv, CallInv
<1>8. LogInv'
  <2>1. \A j \in Calls : request[j].sent => request'[j].pc # "unused"
    BY <1>1 DEF GatewayInv, LogInv
  <2> QED
    BY <1>1, <2>1, LogStays
<1>9. UsedInv'
  <2>1. \A j \in Calls : request[j].result # None => request'[j].pc # "unused"
    BY <1>1 DEF GatewayInv, UsedInv
  <2> QED
    BY <1>1, <2>1, UsedStays
<1>10. AdmittedHasRoom'
  <2>1. Unsent' \subseteq Unsent
    BY <1>1 DEF Unsent, InFlight
  <2> QED
    BY <2>1, RoomIsLeft
<1> QED
  BY <1>6, <1>7, <1>8, <1>9, <1>10 DEF GatewayInv

LEMMA ReleaseStep ==
    ASSUME GatewayInv, NEW k \in Calls, Release(k)
    PROVE  GatewayInv'
<1>1. request[k].pc = "settled" /\ request' = [request EXCEPT ![k].pc = "done"]
  BY DEF Release
<1>2. verified' = verified /\ UNCHANGED <<capabilityState, binding, call, downstream, context, used, log>>
  BY DEF Release, trustVars, gateVars
<1>3. \A j \in Calls : /\ request'[j].pc = (IF j = k THEN "done" ELSE request[j].pc)
                       /\ request'[j].rpc = request[j].rpc /\ request'[j].result = request[j].result
                       /\ request'[j].observed = request[j].observed
                       /\ request'[j].sent = request[j].sent
  BY <1>1 DEF GatewayInv, GatewayTypes, RequestRecords
<1>4. GatewayTypes'
  BY <1>1, <1>2, ZenonT(60) DEF GatewayInv, GatewayTypes, RequestRecords, RequestPcs
<1>5. CallInv'
  <2>1. ASSUME NEW j \in Calls, IsBacked(j) PROVE IsBacked(j)'
    BY <1>2, <1>3, <2>1, StaysBacked
  <2> QED
    BY <1>1, <1>2, <1>3, <2>1 DEF GatewayInv, CallInv
<1>6. LogInv'
  <2>1. \A j \in Calls : request[j].sent => request'[j].pc # "unused"
    BY <1>3 DEF GatewayInv, LogInv
  <2> QED
    BY <1>2, <1>3, <2>1, LogStays
<1>7. UsedInv'
  <2>1. \A j \in Calls : request[j].result # None => request'[j].pc # "unused"
    BY <1>3 DEF GatewayInv, UsedInv
  <2> QED
    BY <1>2, <1>3, <2>1, UsedStays
<1>8. AdmittedHasRoom'
  <2>1. Unsent' \subseteq Unsent
    BY <1>3 DEF Unsent, InFlight
  <2> QED
    BY <1>2, <2>1, RoomIsLeft
<1> QED
  BY <1>4, <1>5, <1>6, <1>7, <1>8 DEF GatewayInv

\* The call of request k belongs to its own capability.
LEMMA OwnCapability ==
    ASSUME GatewayInv, NEW k \in Calls, call[k].pc \in {"observing", "executing"}
    PROVE  call[k].cap = k /\ request[k].pc = "waiting" /\ IsBacked(k)
  BY DEF GatewayInv, CallInv

LEMMA ResumeRejectedStep ==
    ASSUME GatewayInv, NEW k \in Calls, NEW sample \in Samples, ResumeRejected(k, sample)
    PROVE  GatewayInv'
<1>1. call[k].pc = "observing"
  BY DEF ResumeRejected, Gate!ObserverRejects, Gate!ObserverMatches
<1>2. call[k].cap = k /\ request[k].pc = "waiting"
  BY <1>1, OwnCapability
<1>3. downstream \in Seq(Forwarded)
  BY DEF GatewayInv, GatewayTypes
<1>4. ASSUME NEW f PROVE Append(downstream, f) # downstream
  <2>1. Len(Append(downstream, f)) = Len(downstream) + 1 /\ Len(downstream) \in Nat
    BY <1>3
  <2> QED
    BY <2>1
<1>5. /\ Gate!SetState(k, "REJECTED") /\ call' = [call EXCEPT ![k] = Gate!Idle]
      /\ UNCHANGED <<binding, downstream>>
  <2>1. CASE Gate!ObserverRejects(k, request[k].observed)
    BY <1>2, <2>1 DEF Gate!ObserverRejects
  <2>2. CASE Gate!ObserverMatches(k, request[k].observed, sample) /\ downstream' = downstream
    BY <1>2, <1>4, <2>2 DEF Gate!ObserverMatches
  <2> QED
    BY <2>1, <2>2 DEF ResumeRejected
<1>6. capabilityState' \in [Calls -> Gate!States]
  BY <1>5 DEF Gate!SetState, Gate!States, Gate!TerminalStates, GatewayInv, GatewayTypes
<1>7. /\ request' = [request EXCEPT ![k].pc = "settled"]
      /\ verified' = verified /\ UNCHANGED <<context, used, log>>
  BY DEF ResumeRejected, Settle, trustVars
<1> QED
  BY <1>2, <1>5, <1>6, <1>7, SettledStep, ZenonT(60)

LEMMA ProviderAnswersStep ==
    ASSUME GatewayInv, NEW k \in Calls, NEW success \in BOOLEAN, ProviderAnswers(k, success)
    PROVE  GatewayInv'
<1>1. call[k].pc = "executing"
  BY DEF ProviderAnswers, Gate!CompleteConsumption
<1>2. call[k].cap = k /\ request[k].pc = "waiting"
  BY <1>1, OwnCapability
<1>3. /\ call' = [call EXCEPT ![k] = Gate!Idle] /\ UNCHANGED <<binding, downstream>>
      /\ capabilityState' \in [Calls -> Gate!States]
  BY <1>2 DEF ProviderAnswers, Gate!CompleteConsumption, Gate!SetState, Gate!States,
              Gate!TerminalStates, GatewayInv, GatewayTypes
<1>4. /\ request' = [request EXCEPT ![k].pc = "settled"]
      /\ verified' = verified /\ UNCHANGED <<context, used, log>>
  BY DEF ProviderAnswers, Settle, trustVars
<1> QED
  BY <1>2, <1>3, <1>4, SettledStep, ZenonT(60)

\* The second half of the gate, whether the provider is then called or not.
LEMMA ForwardingGate ==
    ASSUME GatewayInv, NEW k \in Calls, NEW sample \in Samples, NEW sampled \in Sampled,
           ResumeForwarding(k, sample, sampled)
    PROVE  /\ call[k].pc = "observing" /\ request[k].pc = "waiting" /\ ~request[k].sent
           /\ IsBacked(k) /\ request[k].observed = binding[k].exec
           /\ \E f \in Forwarded : /\ downstream' = Append(downstream, f) /\ f.cap = k
                                   /\ binding[k].issued <= f.at /\ f.at < binding[k].expires
           /\ call' = [call EXCEPT ![k] = [call[k] EXCEPT !.pc = "executing"]]
           /\ capabilityState' \in [Calls -> Gate!States]
           /\ verified' = verified /\ UNCHANGED <<binding, context, used>>
<1>1. call[k].pc = "observing" /\ request[k].observed # None
  BY DEF ResumeForwarding, Gate!ObserverMatches
<1>2. call[k].cap = k /\ request[k].pc = "waiting" /\ IsBacked(k)
  BY <1>1, OwnCapability
<1>3. ~request[k].sent
  BY <1>1 DEF GatewayInv, CallInv
<1>4. request[k].observed = binding[k].exec /\ binding[k].exec \in Gate!Executions
  BY <1>1, <1>2 DEF IsBacked
<1>5. /\ Gate!Accepted(sample) /\ Gate!CapabilityActive(k, sample)
      /\ Gate!SetState(k, "CONSUMING")
      /\ downstream' = Append(downstream, [cap |-> k, exec |-> request[k].observed,
                                           first |-> call[k].first, at |-> sample])
      /\ call' = [call EXCEPT ![k] = [call[k] EXCEPT !.pc = "executing"]]
      /\ UNCHANGED binding
  BY <1>2 DEF ResumeForwarding, Gate!ObserverMatches
<1>6. capabilityState' \in [Calls -> Gate!States]
  BY <1>5 DEF Gate!SetState, Gate!States, GatewayInv, GatewayTypes
<1>7. sample \in Times
  BY <1>5 DEF Gate!Accepted, Samples
<1>8. call[k].first \in Times
  BY DEF GatewayInv, GatewayTypes, CallRecords
<1> DEFINE f == [cap |-> k, exec |-> request[k].observed, first |-> call[k].first, at |-> sample]
<1>9. f \in Forwarded /\ f.cap = k /\ f.at = sample
  BY <1>4, <1>7, <1>8 DEF Forwarded
<1> HIDE DEF f
<1>10. \E g \in Forwarded : /\ downstream' = Append(downstream, g) /\ g.cap = k
                            /\ binding[k].issued <= g.at /\ g.at < binding[k].expires
  BY <1>5, <1>9 DEF Gate!CapabilityActive, f
<1>11. verified' = verified /\ UNCHANGED <<context, used>>
  BY DEF ResumeForwarding, trustVars
<1> QED
  BY <1>1, <1>2, <1>3, <1>4, <1>5, <1>6, <1>10, <1>11

\* What the provider is called with is what was authorized.
LEMMA SentIsAuthorized ==
    ASSUME NEW k \in Calls, NEW view, NEW rpc, NEW exec \in Gate!Executions,
           exec.context = <<view, Policy>>, exec.action = WalletGuardIntent(k, view, rpc)
    PROVE  exec = Execution(k, view, rpc)
<1>1. exec.profile = "wallet-guard"
  BY DEF Gate!Executions, Profiles
<1> HIDE DEF WalletGuardIntent
<1> QED
  BY <1>1 DEF Gate!Executions, Execution

LEMMA ForwardingStep ==
    ASSUME GatewayInv, NEW k \in Calls, NEW sample \in Samples, NEW sampled \in Sampled,
           ResumeForwarding(k, sample, sampled)
    PROVE  GatewayInv'
<1>1. /\ call[k].pc = "observing" /\ request[k].pc = "waiting" /\ ~request[k].sent
      /\ IsBacked(k) /\ request[k].observed = binding[k].exec
      /\ call' = [call EXCEPT ![k] = [call[k] EXCEPT !.pc = "executing"]]
      /\ capabilityState' \in [Calls -> Gate!States]
      /\ verified' = verified /\ UNCHANGED <<binding, context, used>>
  BY ForwardingGate
<1>2. PICK f \in Forwarded : /\ downstream' = Append(downstream, f) /\ f.cap = k
                             /\ binding[k].issued <= f.at /\ f.at < binding[k].expires
  BY ForwardingGate
<1>3. call' \in [Calls -> CallRecords] /\ call'[k].pc = "executing" /\ call'[k].cap = call[k].cap
      /\ \A j \in Calls : j # k => call'[j] = call[j]
  BY <1>1, ZenonT(60) DEF GatewayInv, GatewayTypes, CallRecords
<1>4. downstream' \in Seq(Forwarded)
  BY <1>2 DEF GatewayInv, GatewayTypes
<1>5. ForwardedInWindow(k)'
  <2>1. downstream \in Seq(Forwarded)
    BY DEF GatewayInv, GatewayTypes
  <2>2. /\ Len(downstream) + 1 \in DOMAIN downstream'
        /\ downstream'[Len(downstream) + 1] = f
    BY <1>2, <2>1
  <2> QED
    BY <1>1, <1>2, <2>2 DEF ForwardedInWindow
<1>6. CASE UNCHANGED <<log, request>>
  <2>1. GatewayTypes'
    BY <1>1, <1>3, <1>4, <1>6 DEF GatewayInv, GatewayTypes
  <2>2. ASSUME NEW j \in Calls, IsBacked(j) PROVE IsBacked(j)'
    BY <1>1, <1>6, <2>2, StaysBacked
  <2>3. CallInv'
    BY <1>1, <1>3, <1>6, <2>2 DEF GatewayInv, CallInv
  <2>4. LogInv'
    BY <1>1, <1>2, <1>6, LogStays DEF GatewayInv, LogInv
  <2>5. UsedInv' /\ AdmittedHasRoom'
    BY <1>1, <1>6 DEF GatewayInv, UsedInv, AdmittedHasRoom, InFlight
  <2> QED
    BY <2>1, <2>3, <2>4, <2>5 DEF GatewayInv
<1>7. CASE ~UNCHANGED <<log, request>>
  <2> DEFINE entry == [id |-> k, view |-> context, rpc |-> request[k].rpc]
  <2>1. /\ sampled # None /\ <<sampled, Policy>> = request[k].observed.context
        /\ WalletGuardIntent(k, sampled, request[k].rpc) = request[k].observed.action
        /\ Allows(k, sampled, request[k].rpc)
        /\ log' = Append(log, entry) /\ request' = [request EXCEPT ![k].sent = TRUE]
    BY <1>7 DEF ResumeForwarding, ExecuteDownstream
  <2>2. sampled = context
    BY <2>1 DEF Sampled, CaptureTrustedContext
  <2>3. entry \in LogEntries /\ entry.id = k /\ entry.view = context /\ entry.rpc = request[k].rpc
    BY <1>1 DEF LogEntries, IsBacked, GatewayInv, GatewayTypes
  <2> HIDE DEF entry
  <2>4. binding[k].exec = Execution(k, context, request[k].rpc)
    <3>1. binding[k].exec \in Gate!Executions
      BY <1>1 DEF IsBacked
    <3>2. /\ binding[k].exec.context = <<context, Policy>>
          /\ binding[k].exec.action = WalletGuardIntent(k, context, request[k].rpc)
      BY <1>1, <2>1, <2>2
    <3> QED
      BY <3>1, <3>2, SentIsAuthorized
  <2>5. \A j \in Calls :
           /\ request'[j].pc = request[j].pc /\ request'[j].rpc = request[j].rpc
           /\ request'[j].result = request[j].result /\ request'[j].observed = request[j].observed
           /\ j # k => request'[j].sent = request[j].sent
           /\ j = k => request'[j].sent
    BY <2>1, ZenonT(60) DEF GatewayInv, GatewayTypes, RequestRecords
  <2>6. request' \in [Calls -> RequestRecords(verified)]
    BY <2>1, ZenonT(60) DEF GatewayInv, GatewayTypes, RequestRecords
  <2>7. /\ log' \in Seq(LogEntries) /\ Len(log') = Len(log) + 1 /\ Len(log) \in Nat
        /\ log'[Len(log) + 1] = entry /\ \A i \in DOMAIN log : log'[i] = log[i]
        /\ DOMAIN log = 1..Len(log) /\ DOMAIN log' = 1..Len(log) + 1
    BY <2>1, <2>3 DEF GatewayInv, GatewayTypes
  <2>8. GatewayTypes'
    BY <1>1, <1>3, <1>4, <2>6, <2>7 DEF GatewayInv, GatewayTypes
  <2>9. ASSUME NEW j \in Calls, IsBacked(j) PROVE IsBacked(j)'
    BY <1>1, <2>5, <2>9, StaysBacked
  <2>10. CallInv'
    <3>1. ASSUME NEW j \in Calls, j # k
          PROVE  /\ call'[j].pc # "idle" =>
                       request'[j].pc = "waiting" /\ call'[j].cap = j /\ IsBacked(j)'
                 /\ call'[j].pc = "observing" => ~request'[j].sent
      BY <1>3, <2>5, <2>9, <3>1 DEF GatewayInv, CallInv
    <3>2. request'[k].pc = "waiting" /\ call'[k].cap = k /\ IsBacked(k)'
      BY <1>1, <1>3, <2>5, <2>9, OwnCapability
    <3> QED
      BY <1>3, <3>1, <3>2 DEF CallInv
  <2>11. LogInv'
    <3>1. \A i \in DOMAIN log : log[i] \in LogEntries /\ log[i].id \in Calls
      <4>1. \A i \in DOMAIN log : log[i] \in LogEntries
        BY DEF GatewayInv, GatewayTypes
      <4> QED
        BY <4>1 DEF LogEntries
    <3>2. \A i \in DOMAIN log : log[i].id # k
      BY <1>1 DEF GatewayInv, LogInv
    <3>3. ASSUME NEW i \in DOMAIN log', i # Len(log) + 1
          PROVE  LET l == log[i].id
                 IN  (/\ request[l].sent /\ IsBacked(l) /\ ForwardedInWindow(l)
                      /\ binding[l].exec = Execution(l, log[i].view, log[i].rpc)
                      /\ log[i].rpc = request[l].rpc /\ Allows(l, log[i].view, log[i].rpc))'
      <4>1. i \in DOMAIN log /\ log'[i] = log[i]
        BY <2>7, <3>3
      <4>2. PICK l \in Calls : l = log[i].id /\ l # k
        BY <3>1, <3>2, <4>1
      <4>3. /\ request[l].sent /\ IsBacked(l) /\ ForwardedInWindow(l)
            /\ binding[l].exec = Execution(l, log[i].view, log[i].rpc)
            /\ log[i].rpc = request[l].rpc /\ Allows(l, log[i].view, log[i].rpc)
        BY <4>1, <4>2 DEF GatewayInv, LogInv
      <4>4. ForwardedInWindow(l)'
        BY <1>1, <1>2, <4>3, StaysForwarded
      <4>5. request'[l].sent /\ request'[l].rpc = request[l].rpc
        BY <2>5, <4>2, <4>3
      <4>6. IsBacked(l)'
        BY <2>9, <4>3
      <4> QED
        BY <1>1, <4>1, <4>2, <4>3, <4>4, <4>5, <4>6 DEF Execution, Allows
    <3>4. LET i == Len(log) + 1
          IN  /\ log'[i].id = k /\ request'[k].sent /\ IsBacked(k)' /\ ForwardedInWindow(k)'
              /\ binding'[k].exec = Execution(k, log'[i].view, log'[i].rpc)
              /\ log'[i].rpc = request'[k].rpc /\ Allows(k, log'[i].view, log'[i].rpc)
      <4>1. /\ log'[Len(log) + 1].id = k /\ log'[Len(log) + 1].view = context
            /\ log'[Len(log) + 1].rpc = request[k].rpc
        BY <2>3, <2>7
      <4>2. request'[k].sent /\ request'[k].rpc = request[k].rpc
        BY <2>5
      <4>3. binding'[k].exec = Execution(k, context, request[k].rpc)
        BY <1>1, <2>4
      <4>4. Allows(k, context, request[k].rpc)
        BY <2>1, <2>2
      <4> QED
        BY <1>1, <1>5, <2>9, <4>1, <4>2, <4>3, <4>4
    <3>5. ASSUME NEW i \in DOMAIN log'
          PROVE  LET l == log[i].id
                 IN  (/\ request[l].sent /\ IsBacked(l) /\ ForwardedInWindow(l)
                      /\ binding[l].exec = Execution(l, log[i].view, log[i].rpc)
                      /\ log[i].rpc = request[l].rpc /\ Allows(l, log[i].view, log[i].rpc))'
      <4>1. CASE i = Len(log) + 1
        BY <3>4, <4>1 DEF Execution, Allows
      <4> QED
        BY <3>3, <4>1
    <3>6. ASSUME NEW i \in DOMAIN log', NEW j \in DOMAIN log', log'[i].id = log'[j].id
          PROVE  i = j
      <4>1. log'[Len(log) + 1].id = k
        BY <3>4
      <4>2. \A m \in DOMAIN log' : m # Len(log) + 1 => m \in DOMAIN log /\ log'[m] = log[m]
        BY <2>7
      <4>3. \A m, n \in DOMAIN log : log[m].id = log[n].id => m = n
        BY DEF GatewayInv, LogInv
      <4> QED
        BY <3>2, <3>6, <4>1, <4>2, <4>3
    <3>7. \A j \in Calls : request'[j].sent => request'[j].pc # "unused"
      BY <1>1, <2>5 DEF GatewayInv, LogInv
    <3> QED
      BY <3>5, <3>6, <3>7 DEF LogInv
  <2>12. UsedInv'
    <3>1. \A j \in Calls : request[j].result # None => request[j].pc # "unused"
      BY DEF GatewayInv, UsedInv
    <3> QED
      BY <1>1, <2>5, <3>1, UsedStays
  <2>13. AdmittedHasRoom'
    <3>1. k \in Unsent /\ Unsent' = Unsent \ {k}
      BY <1>1, <2>5 DEF Unsent, InFlight
    <3>2. Cardinality(Unsent') = Cardinality(Unsent) - 1
      BY <3>1, UnsentIsFinite, FS_RemoveElement, ZenonT(60)
    <3>3. Len(log) + Cardinality(Unsent) <= MaxSensitiveCalls
      BY DEF GatewayInv, AdmittedHasRoom, Unsent
    <3>4. Len(log') + Cardinality(Unsent') <= MaxSensitiveCalls
      BY <2>7, <3>2, <3>3, UnsentIsFinite, GatewayAssumption
    <3> QED
      BY <3>4 DEF AdmittedHasRoom, Unsent
  <2> QED
    BY <2>8, <2>10, <2>11, <2>12, <2>13 DEF GatewayInv
<1> QED
  BY <1>6, <1>7

\* The evidence is not used yet, is reserved, and backs the new capability.
LEMMA AuthorizeStep ==
    ASSUME GatewayInv, NEW k \in Calls, NEW rpc \in Rpcs, NEW e \in Evidence,
           NEW verifiedAt \in Times, Authorize(k, rpc, e, verifiedAt)
    PROVE  GatewayInv'
<1> DEFINE exec == Execution(k, context, rpc)
           result == VerificationResult(e, verifiedAt)
           b(issued) == [exec |-> exec, issued |-> issued, expires |-> issued + Lifetime]
           new(sampled) ==
               [pc |-> IF capabilityState'[k] = "REJECTED" THEN "settled" ELSE "waiting",
                rpc |-> rpc, result |-> result, sent |-> FALSE,
                observed |-> IF sampled = None THEN None ELSE exec]
<1>1. PICK issued \in Times, consumedAt \in Samples, sampled \in Sampled :
          /\ SupplierAccepts(result, e, exec.action, b(issued).issued, b(issued).expires)
          /\ ~Replayed(result.receipt, result.ack) /\ Reserve(result.receipt, result.ack)
          /\ IssueAndConsume(k, b(issued), result.until, consumedAt)
          /\ request' = [request EXCEPT ![k] = new(sampled)]
  BY ZenonT(60) DEF Authorize
<1>2. /\ Admitted(k) /\ UNCHANGED <<context, log>>
      /\ verified' = verified \union {result}
  BY DEF Authorize, VerifyAuthorizationCandidate
<1>3. request[k].pc = "unused"
  BY <1>2 DEF Admitted, IsNextId
<1>4. ~request[k].sent /\ call[k].pc = "idle" /\ \A i \in DOMAIN log : log[i].id # k
  BY <1>3 DEF GatewayInv, LogInv, CallInv
<1>5. /\ result.receipt = e.envelope.receipt /\ result.ack = e.ack /\ result.now = verifiedAt
  BY DEF VerificationResult
<1>6. exec \in Gate!Executions
  <2>1. context \in Views
    BY DEF GatewayInv, GatewayTypes
  <2>2. WalletGuardIntent(k, context, rpc) \in Actions /\ <<context, Policy>> \in Contexts
    BY <2>1 DEF Actions, Contexts
  <2> QED
    BY <2>2 DEF Gate!Executions, Execution, Profiles
<1>7. b(issued).exec = exec /\ b(issued).issued = issued /\ b(issued).expires = issued + Lifetime
  OBVIOUS
<1>8. /\ result.receipt.action = exec.action /\ result.receipt.occurred <= issued
      /\ issued <= result.now /\ issued + Lifetime <= result.until
  <2>1. SupplierAccepts(result, e, exec.action, issued, issued + Lifetime)
    BY <1>1, <1>7
  <2> HIDE DEF exec, result
  <2> QED
    BY <1>5, <2>1 DEF SupplierAccepts
<1>9. /\ new(sampled).rpc = rpc /\ new(sampled).result = result /\ ~new(sampled).sent
      /\ new(sampled).observed \in {None, exec} /\ new(sampled).pc \in {"settled", "waiting"}
      /\ capabilityState'[k] # "REJECTED" => new(sampled).pc = "waiting"
  OBVIOUS
<1>10. new(sampled) \in RequestRecords(verified')
  BY <1>2, <1>6, Zenon DEF RequestRecords, RequestPcs
<1> HIDE DEF exec, result, b, new
<1>11. \A j \in Calls : request'[j] = IF j = k THEN new(sampled) ELSE request[j]
  BY <1>1 DEF GatewayInv, GatewayTypes
<1>12. request' \in [Calls -> RequestRecords(verified')]
  <2>1. request \in [Calls -> RequestRecords(verified')]
    BY <1>2, ResultsOnlyGrow DEF GatewayInv, GatewayTypes
  <2> QED
    BY <1>1, <1>10, <2>1
<1>13. binding' = [binding EXCEPT ![k] = b(issued)] /\ downstream' = downstream
  BY <1>1 DEF IssueAndConsume
<1>14. DOMAIN binding' = Calls /\ \A j \in Calls : binding'[j] = IF j = k THEN b(issued) ELSE binding[j]
  BY <1>13 DEF GatewayInv, GatewayTypes
<1>15. /\ capabilityState' \in [Calls -> Gate!States] /\ call' \in [Calls -> CallRecords]
       /\ \A j \in Calls : j # k => call'[j] = call[j]
       /\ call'[k].pc # "idle" => capabilityState'[k] # "REJECTED" /\ call'[k].cap = k
  <2>1. CASE /\ Gate!SetState(k, "REJECTED") /\ UNCHANGED call
    BY <1>4, <2>1 DEF Gate!SetState, Gate!States, Gate!TerminalStates, GatewayInv, GatewayTypes
  <2>2. CASE /\ Gate!Accepted(consumedAt) /\ Gate!SetState(k, "VALIDATING")
             /\ call' = [call EXCEPT ![k] = [pc |-> "observing", cap |-> k, first |-> consumedAt]]
    <3>1. consumedAt \in Times
      BY <2>2 DEF Gate!Accepted, Samples
    <3>2. [pc |-> "observing", cap |-> k, first |-> consumedAt] \in CallRecords
      BY <3>1 DEF CallRecords
    <3>3. capabilityState' \in [Calls -> Gate!States] /\ capabilityState'[k] = "VALIDATING"
      BY <2>2 DEF Gate!SetState, Gate!States, GatewayInv, GatewayTypes
    <3>4. /\ call' \in [Calls -> CallRecords] /\ call'[k].cap = k
          /\ \A j \in Calls : j # k => call'[j] = call[j]
      BY <2>2, <3>2 DEF GatewayInv, GatewayTypes
    <3> QED
      BY <3>3, <3>4
  <2> QED
    BY <1>1, <2>1, <2>2 DEF IssueAndConsume
<1>16. GatewayTypes'
  BY <1>2, <1>12, <1>13, <1>14, <1>15 DEF GatewayInv, GatewayTypes
<1>17. IsBacked(k)'
  BY <1>2, <1>6, <1>7, <1>8, <1>9, <1>11, <1>14 DEF IsBacked
<1>18. ASSUME NEW j \in Calls, j # k, IsBacked(j) PROVE IsBacked(j)'
  BY <1>2, <1>11, <1>14, <1>18, StaysBacked
<1>19. CallInv'
  <2>1. ASSUME NEW j \in Calls, j # k
        PROVE  /\ call'[j].pc # "idle" =>
                     request'[j].pc = "waiting" /\ call'[j].cap = j /\ IsBacked(j)'
               /\ call'[j].pc = "observing" => ~request'[j].sent
    BY <1>11, <1>15, <1>18, <2>1 DEF GatewayInv, CallInv
  <2>2. /\ call'[k].pc # "idle" => request'[k].pc = "waiting" /\ call'[k].cap = k
        /\ ~request'[k].sent
    BY <1>9, <1>11, <1>15
  <2> QED
    BY <1>17, <2>1, <2>2 DEF CallInv
<1>20. LogInv'
  <2>1. \A j \in Calls : request[j].sent => j # k /\ request[j].pc # "unused"
    BY <1>4 DEF GatewayInv, LogInv
  <2>2. \A j \in Calls : ~request[j].sent => ~request'[j].sent
    BY <1>9, <1>11
  <2>3. \A j \in Calls : request[j].sent =>
           request'[j] = request[j] /\ request'[j].pc # "unused" /\ binding'[j] = binding[j]
    BY <1>11, <1>14, <2>1
  <2> QED
    BY <1>2, <1>13, <2>2, <2>3, LogStays, ZenonT(60)
<1>21. UsedInv'
  <2>1. /\ result.receipt.run \notin used.runs /\ result.receipt \notin used.receipts
        /\ result.ack \notin used.acks
    BY <1>1 DEF Replayed
  <2>2. /\ used'.runs = used.runs \union {result.receipt.run}
        /\ used'.receipts = used.receipts \union {result.receipt}
        /\ used'.acks = used.acks \union {result.ack}
    BY <1>1 DEF Reserve
  <2>3. request'[k].result = result /\ request'[k].pc # "unused"
    BY <1>9, <1>11
  <2>4. ASSUME NEW j \in Calls, j # k, request[j].result # None
        PROVE  /\ request'[j] = request[j] /\ request[j].pc # "unused"
               /\ request[j].result.receipt.run \in used.runs
               /\ request[j].result.receipt \in used.receipts /\ request[j].result.ack \in used.acks
    BY <1>11, <2>4 DEF GatewayInv, UsedInv
  <2>5. \A j \in Calls : j # k => request'[j] = request[j]
    BY <1>11
  <2>6. \A i, j \in Calls :
           LET x == request[i].result
               y == request[j].result
           IN  x # None /\ y # None /\ i # j =>
                   x.receipt.run # y.receipt.run /\ x.receipt # y.receipt /\ x.ack # y.ack
    BY DEF GatewayInv, UsedInv
  <2>7. ASSUME NEW j \in Calls, request'[j].result # None
        PROVE  /\ request'[j].pc # "unused" /\ request'[j].result.receipt.run \in used'.runs
               /\ request'[j].result.receipt \in used'.receipts
               /\ request'[j].result.ack \in used'.acks
    <3>1. CASE j = k
      BY <2>2, <2>3, <3>1
    <3>2. CASE j # k
      BY <2>2, <2>4, <2>5, <2>7, <3>2
    <3> QED
      BY <3>1, <3>2
  <2>8. ASSUME NEW i \in Calls, NEW j \in Calls, i # j,
               request'[i].result # None, request'[j].result # None
        PROVE  /\ request'[i].result.receipt.run # request'[j].result.receipt.run
               /\ request'[i].result.receipt # request'[j].result.receipt
               /\ request'[i].result.ack # request'[j].result.ack
    <3>1. CASE i # k /\ j # k
      BY <2>5, <2>6, <2>8, <3>1
    <3>2. CASE i = k
      BY <2>1, <2>3, <2>4, <2>5, <2>8, <3>2
    <3>3. CASE j = k
      BY <2>1, <2>3, <2>4, <2>5, <2>8, <3>3
    <3> QED
      BY <3>1, <3>2, <3>3
  <2> QED
    BY <2>7, <2>8 DEF UsedInv
<1>22. AdmittedHasRoom'
  BY <1>2, <1>11, AdmissionLeavesRoom
<1> QED
  BY <1>16, <1>19, <1>20, <1>21, <1>22 DEF GatewayInv

\* No operation on the identities takes a result back.
LEMMA TrustChangesStep == ASSUME GatewayInv, TrustChanges PROVE GatewayInv'
<1>1. verified' = verified
  <2>1. ASSUME NEW k, NEW sample, RevokeIdentity(k, sample) PROVE verified' = verified
    BY <2>1 DEF RevokeIdentity
  <2>2. ASSUME NEW k, NEW role, NEW until, NEW sample, EnrollIdentity(k, role, until, sample)
        PROVE  verified' = verified
    BY <2>2 DEF EnrollIdentity
  <2>3. ASSUME NEW k, NEW successor, NEW until, NEW sample,
               \/ RotateIdentity(k, successor, until, sample)
               \/ RecoverIdentity(k, successor, until, sample)
        PROVE  verified' = verified
    BY <2>3 DEF RotateIdentity, RecoverIdentity, ReplaceIdentity
  <2>4. ASSUME NEW sample, RefuseTrustOperation(sample) PROVE verified' = verified
    BY <2>4 DEF RefuseTrustOperation
  <2> QED
    BY <2>1, <2>2, <2>3, <2>4 DEF TrustChanges, AdminStep
<1>2. context' \in Views /\ UNCHANGED <<gateVars, request, used, log>>
  BY DEF TrustChanges, GatewayInv, GatewayTypes
<1> QED
  BY <1>1, <1>2, EnvironmentStep

LEMMA GatewayStep == GatewayInv /\ [GatewayNext]_gatewayVars => GatewayInv'
<1> SUFFICES ASSUME GatewayInv, [GatewayNext]_gatewayVars PROVE GatewayInv'
  OBVIOUS
<1>1. ASSUME NEW k \in Calls, RequestStep(k) PROVE GatewayInv'
  <2>1. PICK rpc \in Rpcs :
           \/ Decline(k, rpc)
           \/ \E sample \in Samples : RefuseAuthorization(k, rpc, sample)
           \/ \E e \in Evidence, verifiedAt \in Times : Authorize(k, rpc, e, verifiedAt)
    BY <1>1 DEF RequestStep
  <2>2. CASE Decline(k, rpc)
    BY <2>2, DeclinedStep, ZenonT(60) DEF Decline, trustVars
  <2>3. ASSUME NEW sample \in Samples, RefuseAuthorization(k, rpc, sample) PROVE GatewayInv'
    BY <2>3, DeclinedStep, ZenonT(60) DEF RefuseAuthorization
  <2> QED
    BY <2>1, <2>2, <2>3, AuthorizeStep
<1>2. ASSUME NEW k \in Calls, ResumeStep(k) PROVE GatewayInv'
  BY <1>2, ResumeRejectedStep, ForwardingStep DEF ResumeStep
<1>3. ASSUME NEW view \in Views, ContextChanges(view) PROVE GatewayInv'
  BY <1>3, EnvironmentStep DEF ContextChanges, trustVars
<1>4. CASE UNCHANGED gatewayVars
  <2>1. UNCHANGED <<gateVars, request, used, log>> /\ verified' = verified /\ context' \in Views
    BY <1>4 DEF gatewayVars, trustVars, GatewayInv, GatewayTypes
  <2> QED
    BY <2>1, EnvironmentStep
<1> QED
  BY <1>1, <1>2, <1>3, <1>4, ReleaseStep, ProviderAnswersStep, TrustChangesStep DEF GatewayNext

-----------------------------------------------------------------------------
(* The theorems *)

\* Whatever executeDownstream sends is the page's request in the context it was
\* authorized in, inside a capability window that evidence verified for this action covers.
THEOREM SentIsBackedTheorem == GatewaySpec => []SentIsBacked
<1>1. GatewayInv => SentIsBacked
  BY DEF GatewayInv, LogInv, IsBacked, ForwardedInWindow, SentIsBacked
<1> QED
  BY <1>1, GatewayInitially, GatewayStep, PTL DEF GatewaySpec

\* The replay identities the supplier reserves keep a run, a receipt and an
\* acknowledgement from backing two requests, and a request is sent at most once.
THEOREM EvidenceUsedOnceTheorem == GatewaySpec => []EvidenceUsedOnce
<1>1. GatewayInv => EvidenceUsedOnce
  BY DEF GatewayInv, UsedInv, LogInv, EvidenceUsedOnce
<1> QED
  BY <1>1, GatewayInitially, GatewayStep, PTL DEF GatewaySpec

\* The host's admission count leaves room for every request under way.
THEOREM AdmittedHasRoomTheorem == GatewaySpec => []AdmittedHasRoom
<1>1. GatewayInv => AdmittedHasRoom
  BY DEF GatewayInv
<1> QED
  BY <1>1, GatewayInitially, GatewayStep, PTL DEF GatewaySpec
=============================================================================
