-------------------------- MODULE EvidenceRegistry --------------------------
(***************************************************************************)
(* The Soroban contract of integrations/stellar-evidence-registry: one     *)
(* admin, writers it appoints, and one record per batch identifier.        *)
(* Every call is one atomic transaction, signed by the address it names.   *)
(***************************************************************************)
EXTENDS Naturals, Sequences

CONSTANTS
    Addresses,      \* who may sign
    BatchIds,
    Commitments,    \* [root, manifest, evidence]: what a record commits to
    Unset           \* no admin, no record

ASSUME RegistryAssumption ==
    /\ Unset \notin Addresses
    /\ Unset \notin [commitment : Commitments, issuer : Addresses, status : {"active", "revoked"}]

VARIABLES
    registryAdmin,  \* DataKey::Admin
    writers,        \* the addresses whose DataKey::Writer is true
    records,        \* DataKey::Record
    registrations,  \* history: what was registered under each identifier, in order
    revoked         \* history: the identifiers revoked

registryVars == <<registryAdmin, writers, records, registrations, revoked>>

RegistryInit == /\ registryAdmin = Unset
                /\ writers = {}
                /\ records = [b \in BatchIds |-> Unset]
                /\ registrations = [b \in BatchIds |-> <<>>]
                /\ revoked = {}

Initialize(address) ==
    /\ registryAdmin = Unset
    /\ registryAdmin' = address
    /\ writers' = writers \union {address}
    /\ UNCHANGED <<records, registrations, revoked>>

\* Signed by the admin.
SetWriter(writer, authorized) ==
    /\ registryAdmin # Unset
    /\ writers' = IF authorized THEN writers \union {writer} ELSE writers \ {writer}
    /\ UNCHANGED <<registryAdmin, records, registrations, revoked>>

\* Mutant of Register: only an active record is kept.
RegisterAfterRevocation(writer, b, commitment) ==
    /\ registryAdmin # Unset
    /\ writer \in writers
    /\ records[b] # Unset => records[b].status = "revoked"
    /\ records' = [records EXCEPT ![b] =
          [commitment |-> commitment, issuer |-> writer, status |-> "active"]]
    /\ registrations' = [registrations EXCEPT ![b] = Append(@, commitment)]
    /\ UNCHANGED <<registryAdmin, writers, revoked>>

Register(writer, b, commitment) ==
    /\ registryAdmin # Unset
    /\ writer \in writers
    /\ records[b] = Unset
    /\ records' = [records EXCEPT ![b] =
          [commitment |-> commitment, issuer |-> writer, status |-> "active"]]
    /\ registrations' = [registrations EXCEPT ![b] = Append(@, commitment)]
    /\ UNCHANGED <<registryAdmin, writers, revoked>>

Revoke(caller, b) ==
    /\ registryAdmin # Unset
    /\ records[b] # Unset
    /\ records[b].status = "active"
    /\ caller \in {registryAdmin, records[b].issuer}
    /\ records' = [records EXCEPT ![b].status = "revoked"]
    /\ revoked' = revoked \union {b}
    /\ UNCHANGED <<registryAdmin, writers, registrations>>

\* verify
Attests(b, commitment) ==
    /\ records[b] # Unset
    /\ records[b].status = "active"
    /\ records[b].commitment = commitment

RegistryNext ==
    \/ \E a \in Addresses : Initialize(a)
    \/ \E a \in Addresses, authorized \in BOOLEAN : SetWriter(a, authorized)
    \/ \E a \in Addresses, b \in BatchIds :
          Revoke(a, b) \/ \E c \in Commitments : Register(a, b, c)

RegistrySpec == RegistryInit /\ [][RegistryNext]_registryVars

-----------------------------------------------------------------------------
(* Properties *)

\* An identifier attests the first thing registered under it or, once revoked by
\* anybody, nothing any more.
AttestsFirstOnly ==
    \A b \in BatchIds, c \in Commitments :
        Attests(b, c) => registrations[b] = <<c>> /\ b \notin revoked
=============================================================================
