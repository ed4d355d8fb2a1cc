---------------------------- MODULE WalletPolicy ----------------------------
(***************************************************************************)
(* What a wallet request means and whether the policy allows it:           *)
(* wallet-guard/evm-decoders.mjs, intent.mjs and policy.mjs as functions.  *)
(*                                                                         *)
(* A request is [method, account, to, value, data].  Its data is the       *)
(* calldata or the typed data by shape: [shape, exact, address, token,     *)
(* number, owner, chain, contract], of which a shape uses what it has.     *)
(* Words, hex digits and JSON are left out; "malformed" is everything the  *)
(* decoders reject.                                                        *)
(***************************************************************************)
EXTENDS Integers

CONSTANT MaxUint256     \* the allowance that means "unlimited"

null == "null"

NoAmount == -1          \* null where a decimal is expected

-----------------------------------------------------------------------------
(* evm-decoders.mjs *)

\* Every class but the plain transfer asks for a simulation.
Decoded(class) ==
    [class |-> class, target |-> null, spender |-> null, recipient |-> null,
     allowance |-> NoAmount, amount |-> NoAmount, operator |-> FALSE, owner |-> null,
     chain |-> null, contract |-> null, simulation |-> class # "native_transfer"]

DecodeTransactionCalldata(data) ==
    CASE data.shape = "empty" -> Decoded("native_transfer")
      [] data.shape = "approve" ->
            [Decoded("erc20_approve") EXCEPT !.spender = data.address, !.allowance = data.number]
      [] data.shape = "transfer" ->
            [Decoded("erc20_transfer") EXCEPT !.recipient = data.address, !.amount = data.number]
      [] data.shape = "setApprovalForAll" ->
            [Decoded("set_approval_for_all") EXCEPT !.spender = data.address,
                                                    !.operator = data.number = 1]
      [] OTHER -> Decoded("unknown_calldata")

\* A permit that is not exactly of the known type is unknown, not rejected.
DecodeTypedData(data) ==
    LET domain(class) == [Decoded(class) EXCEPT !.chain = data.chain, !.contract = data.contract]
    IN  CASE data.shape = "Permit" /\ data.exact ->
                [domain("permit_eip2612") EXCEPT !.target = data.contract, !.spender = data.address,
                                                 !.allowance = data.number, !.owner = data.owner]
          [] data.shape = "PermitSingle" /\ data.exact ->
                [domain("permit2_single") EXCEPT !.target = data.token, !.spender = data.address,
                                                 !.allowance = data.number]
          [] data.shape = "PermitBatch" -> domain("permit2_batch_unknown")
          [] OTHER -> domain("unknown_typed_data")

-----------------------------------------------------------------------------
(* intent.mjs *)

\* normalizeSendTransaction, normalizeTypedDataRequest, normalizeGenericSignature
\* and normalizeUnsupportedRpc.
NormalizeAction(request) ==
    LET decoded == DecodeTransactionCalldata(request.data)
    IN  CASE request.method = "eth_sendTransaction" ->
                [decoded EXCEPT !.target = request.to,
                                !.recipient = IF decoded.class = "native_transfer"
                                              THEN request.to ELSE @]
          [] request.method = "eth_signTypedData_v4" -> DecodeTypedData(request.data)
          [] request.method \in {"personal_sign", "eth_sign"} -> Decoded("generic_signature")
          [] OTHER -> Decoded("unsupported_rpc")

NativeValue(request) == IF request.method = "eth_sendTransaction" THEN request.value ELSE 0

\* normalizeWalletGuardIntent rejects a request of another account, a permit of
\* another owner, and data that does not decode.
Normalizes(context, request) ==
    /\ request.method \in {"eth_sendTransaction", "eth_signTypedData_v4"} =>
          request.account = context.account /\ request.data.shape # "malformed"
    /\ NormalizeAction(request).class = "permit_eip2612" =>
          NormalizeAction(request).owner = context.account

\* The intent, which also stands for its commitment: request and context in full.
WalletGuardIntent(id, context, request) ==
    [id |-> id, origin |-> context.origin, chain |-> context.chain, account |-> context.account,
     method |-> request.method, value |-> NativeValue(request), data |-> request.data,
     action |-> NormalizeAction(request)]

-----------------------------------------------------------------------------
(* policy.mjs *)

GreaterThan(value, limit) == value = NoAmount \/ value > limit

CriticalUnknownClasses ==
    {"unknown_calldata", "unknown_typed_data", "permit2_batch_unknown", "generic_signature",
     "unsupported_rpc"}

\* The reasons whose condition holds.
Raised(checks) == {check[2] : check \in {c \in checks : c[1]}}

GeneralChecks(i, p) ==
    { <<~p.enabled, "DISABLED">>,
      <<p.killSwitch, "KILL_SWITCH">>,
      <<i.origin \notin p.origins, "ORIGIN">>,
      <<i.chain # p.chain, "CHAIN">>,
      <<GreaterThan(i.value, p.maxNative), "NATIVE_VALUE">> }

AllowanceChecks(a, p) ==
    { <<p.denyUnlimited /\ a.allowance = MaxUint256, "UNLIMITED_ALLOWANCE">>,
      <<GreaterThan(a.allowance, p.maxToken), "ALLOWANCE_LIMIT">> }

ClassChecks(i, p) ==
    LET a == i.action
        target == <<a.target \notin p.targets, "TARGET">>
        spender == <<a.spender \notin p.spenders, "SPENDER">>
        recipient == <<a.recipient \notin p.recipients, "RECIPIENT">>
    IN  CASE a.class = "native_transfer" -> {recipient}
          [] a.class = "erc20_transfer" ->
                {target, recipient, <<GreaterThan(a.amount, p.maxToken), "TOKEN_AMOUNT">>}
          [] a.class = "erc20_approve" -> {target, spender} \union AllowanceChecks(a, p)
          [] a.class = "set_approval_for_all" ->
                {target, <<a.spender \notin p.spenders, "OPERATOR">>,
                 <<p.denyOperator /\ a.operator, "OPERATOR_APPROVAL">>}
          [] a.class \in {"permit_eip2612", "permit2_single"} ->
                {target, spender,
                 <<a.chain # i.chain, "TYPED_DATA_CHAIN">>,
                 <<a.contract \notin p.contracts, "TYPED_DATA_DOMAIN">>,
                 <<a.class = "permit_eip2612" /\ a.owner # i.account, "TYPED_DATA_OWNER">>}
                    \union AllowanceChecks(a, p)
          [] OTHER -> {}

SimulationRequired(i, p) == i.action.simulation \/ i.action.class \in p.simulate

DenyReasons(i, p, simulation) ==
    Raised(GeneralChecks(i, p) \union ClassChecks(i, p)
           \union {<<SimulationRequired(i, p) /\ simulation \in {"fail", "mismatch"}, "SIMULATION">>})

IndeterminateReasons(i, p, simulation) ==
    Raised({<<i.action.class \in CriticalUnknownClasses, "UNSUPPORTED_EFFECT">>,
            <<SimulationRequired(i, p) /\ simulation \notin {"fail", "mismatch", "pass"}, "SIMULATION">>})

\* evaluateWalletGuardPolicy: one reason to deny outweighs every doubt.
Evaluate(i, p, simulation) ==
    CASE DenyReasons(i, p, simulation) # {} -> "DENY"
      [] DenyReasons(i, p, simulation) = {} /\ IndeterminateReasons(i, p, simulation) # {} ->
            "INDETERMINATE"
      [] OTHER -> "ALLOW"
=============================================================================
