---------------------------- MODULE Credentials ----------------------------
(***************************************************************************)
(* The vendor credentials of tenants: rows sealed by the KMS of the        *)
(* process and bound to their tenant and provider (schemas/storage:        *)
(* crypto.py, credentials.py), the resolver that reads them with a         *)
(* fallback to the process's own environment, and the drivers made of what *)
(* it finds (tenant_registry.py).                                          *)
(*                                                                         *)
(* What may be missing is a set of at most one element: the blob of a row, *)
(* the dict a resolver returns, the driver a builder returns.              *)
(***************************************************************************)
EXTENDS Naturals, FiniteSets

CONSTANTS
    Tenants,
    Payloads      \* CredentialPayloads of a row: [fields, meta], each name |-> value

Providers == {"amadeus", "tbo"}

VARIABLES
    kms,        \* what build_kms_provider makes of the environment: the Fernet
                \* key, "plain" for NullKMS, or "misconfigured"
    house,      \* provider |-> the credentials in the environment
    vault,      \* tenant |-> provider |-> encrypted_blob of the row
    \* history
    plain,      \* tenant |-> provider |-> what was last put there
    offered     \* the same, all that was there since the last build began

vaultVars == <<kms, house, vault, plain, offered>>

-----------------------------------------------------------------------------
(* crypto.py                                                               *)

\* _context_for and _aad_digest.
Context(t, p) == <<t, p>>

\* encrypt frames the plaintext with the digest of its context.
Encrypt(k, t, p, payload) == [key |-> k, aad |-> Context(t, p), payload |-> payload]

(* Mutant of Verified: the digest is cut off and not compared.             *)
AnyContext(blob, t, p) == TRUE

\* _strip_and_verify_aad
Verified(blob, t, p) == blob.aad = Context(t, p)

\* Of the blobs v there are per tenant and provider, those the key k opens in
\* their place hold what was put there, pl.
WasPut(k, v, pl) ==
    /\ v = [t \in Tenants |-> [p \in Providers |-> v[t][p]]]
    /\ pl = [t \in Tenants |-> [p \in Providers |-> pl[t][p]]]
    /\ \A t \in Tenants, p \in Providers : \A b \in v[t][p] :
          b.key = k /\ b.aad = Context(t, p) => b.payload \in pl[t][p]

\* decrypt raises for a token of another key, for plain text under a key, and
\* for a token without a key.
Opens(blob, t, p) == blob.key = kms /\ Verified(blob, t, p)

-----------------------------------------------------------------------------
(* TenantCredentialRepository.  Each operation is one transaction.         *)

\* put, and rotate, which only adds a time stamp nobody reads.
Put(t, p, payload) ==
    /\ kms # "misconfigured"
    /\ vault' = [vault EXCEPT ![t][p] = {Encrypt(kms, t, p, payload)}]
    /\ plain' = [plain EXCEPT ![t][p] = {payload}]
    /\ offered' = [offered EXCEPT ![t][p] = @ \cup {payload}]
    /\ UNCHANGED <<kms, house>>

Delete(t, p) ==
    /\ kms # "misconfigured" /\ vault[t][p] # {}
    /\ vault' = [vault EXCEPT ![t][p] = {}]
    /\ plain' = [plain EXCEPT ![t][p] = {}]
    /\ UNCHANGED <<kms, house, offered>>

\* The dict of f, and of g where f has nothing.
Over(f, g) == [n \in DOMAIN f \cup DOMAIN g |-> IF n \in DOMAIN f THEN f[n] ELSE g[n]]

\* get, with CredentialDecryptionError made into None, and fields over meta.
ResolveTenantCredentials(t, p) ==
    {Over(b.payload.fields, b.payload.meta) : b \in {x \in vault[t][p] : Opens(x, t, p)}}

-----------------------------------------------------------------------------
(* tenant_registry.py: the resolvers and the builders.                     *)

Get(dict, name, default) == IF name \in DOMAIN dict THEN dict[name] ELSE default

\* EnvCredentialResolver: the same for every tenant.  Amadeus is configured
\* even if the environment has no client, tbo only with a login.
EnvCredentials(p) ==
    IF p = "tbo" /\ Get(house[p], "login", "") = "" THEN {} ELSE {house[p]}

\* StorageCredentialResolver falls back when the hook raises: the provider of
\* keys is misconfigured, or the database fails.
Raises(broken) == kms = "misconfigured" \/ broken

StorageCredentials(t, p, broken) ==
    IF Raises(broken) THEN EnvCredentials(p) ELSE ResolveTenantCredentials(t, p)

\* _build_amadeus_driver, _build_tbo_driver: TBODriver refuses an empty login.
BuildDriver(p, dicts) ==
    {[login |-> Get(d, "login", ""), base |-> Get(d, "base", "default")] :
        d \in {e \in dicts : p = "tbo" => Get(e, "login", "") # ""}}
=============================================================================
