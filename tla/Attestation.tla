---------------------------- MODULE Attestation ----------------------------
(***************************************************************************)
(* Agent attestations: an agent signs who it is and which build it runs    *)
(* (sign_attestation of demo_remote_assist.py), and a verifier decides     *)
(* whether to trust it (rclp_core/attestation.py).                         *)
(*                                                                         *)
(* The verifier keeps no record of what it has seen.  It is called with    *)
(* three tables, the public key, the key id and the manifest digest of     *)
(* each agent, which an operator updates one at a time when the agent gets *)
(* a new release.  Attestations are delivered late, out of order, more     *)
(* than once or damaged.  The agent's clock is off by up to the skew that  *)
(* the verifier allows for.                                                *)
(***************************************************************************)
EXTENDS Integers, Sequences, FiniteSets, Crypto

CONSTANTS
    AgentId,           \* the agent
    Releases,          \* its releases, in order: key, key id and manifest digest
    AcceptedTiers,     \* accepted_trust_tiers
    Tiers,             \* trust tiers the agent may claim
    MaxAge,            \* max_attestation_age_seconds
    Skew,              \* ATTESTATION_CLOCK_SKEW_SECONDS
    MaxClock,          \* bound: the clock stops here
    MaxAttestations    \* bound: attestations the agent signs

ASSUME AgesAssumption == MaxAge \in Nat /\ Skew \in Nat /\ MaxClock \in Nat
ASSUME ReleasesAssumption ==
    /\ DOMAIN Releases = 1..Len(Releases) /\ Len(Releases) \in Nat \ {0}
    /\ \A i \in DOMAIN Releases :
          LET r == Releases[i]
          IN  /\ r = [key |-> r.key, key_id |-> r.key_id, manifest |-> r.manifest]
              /\ r.key # None /\ r.key_id # None /\ r.manifest # None

\* What the agent signs, with the key of one of its releases.
AttestationSignatures ==
    [key : {Releases[i].key : i \in DOMAIN Releases},
     over : [agent_id : {AgentId}, authenticated_agent_id : {AgentId}, created_at : Int,
             manifest_digest : {Releases[i].manifest : i \in DOMAIN Releases},
             public_key_id : {Releases[i].key_id : i \in DOMAIN Releases}, trust_tier : Tiers,
             revoked : BOOLEAN, defects : {{}}, signature : {None}]]

\* No name, time or signature is Python's None.
ASSUME SomeAssumption == None # AgentId /\ None \notin Nat \cup AttestationSignatures

VARIABLES
    clock,       \* the verifier's clock
    running,     \* the release the agent runs
    withdrawn,   \* when the agent began to attest that it is revoked, or None
    trust,       \* the verifier's three tables, at the agent
    sent,        \* attestations the agent has signed
    verdict      \* the verifier's answer, once it was asked

attestation_vars == <<clock, running, withdrawn, trust, sent, verdict>>

\* The reason of the first check that is violated.
FirstViolation(checks) ==
    LET bad == {i \in DOMAIN checks : checks[i][1]}
    IN  IF bad = {} THEN Valid ELSE checks[CHOOSE i \in bad : \A j \in bad : i <= j][2]
-----------------------------------------------------------------------------
AgentAttestation(release, created_at, tier, revoked) ==
    [agent_id |-> AgentId, authenticated_agent_id |-> AgentId, created_at |-> created_at,
     manifest_digest |-> release.manifest, public_key_id |-> release.key_id, trust_tier |-> tier,
     revoked |-> revoked, defects |-> {}, signature |-> None]

\* `defects` holds what is wrong with the wire form alone: algorithm, size, tier, time zone.
attestation_auth_violation(a) ==
    FirstViolation(<<
        <<"ALGORITHM" \in a.defects, "ATTESTATION_SIGNATURE_ALGORITHM_UNSUPPORTED">>,
        <<a.authenticated_agent_id = None, "ATTESTATION_AUTHENTICATED_AGENT_MISSING">>,
        <<a.authenticated_agent_id # a.agent_id, "ATTESTATION_AUTHENTICATED_AGENT_MISMATCH">>,
        <<a.signature = None, "ATTESTATION_SIGNATURE_MISSING">>,
        <<a.authenticated_agent_id # AgentId \/ trust.key = None, "ATTESTATION_AGENT_KEY_NOT_TRUSTED">>,
        <<"SIZE" \in a.defects, "ATTESTATION_SIGNED_MATERIAL_TOO_LARGE">>,
        <<~verify_with_public_key_b64(a, trust.key), "ATTESTATION_SIGNATURE_INVALID">> >>)

attestation_time_violation_Reversed(a) ==   \* mutant: the age is computed the wrong way round
    FirstViolation(<<
        <<a.created_at > clock + Skew, "ATTESTATION_NOT_YET_VALID">>,
        <<a.created_at - clock > MaxAge + Skew, "ATTESTATION_STALE">> >>)

attestation_time_violation_NoSkew(a) ==   \* mutant: an attestation from a clock that is ahead
    FirstViolation(<<
        <<a.created_at > clock, "ATTESTATION_NOT_YET_VALID">>,
        <<clock - a.created_at > MaxAge + Skew, "ATTESTATION_STALE">> >>)

attestation_time_violation(a) ==
    FirstViolation(<<
        <<"TIMESTAMP" \in a.defects, "ATTESTATION_TIMESTAMP_INVALID">>,
        <<a.created_at > clock + Skew, "ATTESTATION_NOT_YET_VALID">>,
        <<clock - a.created_at > MaxAge + Skew, "ATTESTATION_STALE">> >>)

attestation_trust_violation_AnyManifest(a) ==   \* mutant: the manifest digest is not compared
    FirstViolation(<<
        <<attestation_auth_violation(a) # Valid, attestation_auth_violation(a)>>,
        <<attestation_time_violation(a) # Valid, attestation_time_violation(a)>>,
        <<a.manifest_digest = None, "ATTESTATION_MANIFEST_DIGEST_MISSING">>,
        <<a.public_key_id = None, "ATTESTATION_PUBLIC_KEY_ID_MISSING">>,
        <<trust.key_id = None, "ATTESTATION_PUBLIC_KEY_ID_NOT_TRUSTED">>,
        <<a.public_key_id # trust.key_id, "ATTESTATION_PUBLIC_KEY_ID_MISMATCH">>,
        <<a.revoked, "ATTESTATION_AGENT_REVOKED">>,
        <<a.trust_tier \notin AcceptedTiers, "ATTESTATION_TRUST_TIER_NOT_ACCEPTED">>,
        <<trust.manifest = None, "ATTESTATION_MANIFEST_DIGEST_NOT_TRUSTED">> >>)

attestation_trust_violation(a) ==
    FirstViolation(<<
        <<attestation_auth_violation(a) # Valid, attestation_auth_violation(a)>>,
        <<attestation_time_violation(a) # Valid, attestation_time_violation(a)>>,
        <<a.manifest_digest = None, "ATTESTATION_MANIFEST_DIGEST_MISSING">>,
        <<a.public_key_id = None, "ATTESTATION_PUBLIC_KEY_ID_MISSING">>,
        <<trust.key_id = None, "ATTESTATION_PUBLIC_KEY_ID_NOT_TRUSTED">>,
        <<a.public_key_id # trust.key_id, "ATTESTATION_PUBLIC_KEY_ID_MISMATCH">>,
        <<a.revoked, "ATTESTATION_AGENT_REVOKED">>,
        <<AcceptedTiers = {}, "ATTESTATION_TRUST_TIER_POLICY_REQUIRED">>,
        <<"TIER" \in a.defects, "ATTESTATION_TRUST_TIER_MISSING">>,
        <<a.trust_tier \notin AcceptedTiers, "ATTESTATION_TRUST_TIER_NOT_ACCEPTED">>,
        <<trust.manifest = None, "ATTESTATION_MANIFEST_DIGEST_NOT_TRUSTED">>,
        <<a.manifest_digest # trust.manifest, "ATTESTATION_MANIFEST_DIGEST_MISMATCH">> >>)
-----------------------------------------------------------------------------
AttestationInit ==
    /\ clock = 0
    /\ running = 1
    /\ withdrawn = None
    /\ trust = Releases[1]
    /\ sent = {}
    /\ verdict = None

\* sign_attestation(): with the agent's own key, stamped by the agent's own clock.
Attest(drift, tier) ==
    LET r == Releases[running]
        a == AgentAttestation(r, clock + drift, tier, withdrawn # None)
    IN  /\ Cardinality(sent) < MaxAttestations
        /\ sent' = sent \cup {[message |-> Signed(r.key, a), at |-> clock, release |-> running]}
        /\ UNCHANGED <<clock, running, withdrawn, trust, verdict>>

\* The agent is restarted with its next release.
Upgrade ==
    /\ running < Len(Releases)
    /\ running' = running + 1
    /\ UNCHANGED <<clock, withdrawn, trust, sent, verdict>>

\* From now on the agent attests that it is revoked.
Withdraw ==
    /\ withdrawn = None
    /\ withdrawn' = clock
    /\ UNCHANGED <<clock, running, trust, sent, verdict>>

\* The operator puts release n into one of the tables, or takes the agent out of it.
Configure(table, n) ==
    /\ trust' = [trust EXCEPT ![table] = IF n = None THEN None ELSE Releases[n][table]]
    /\ UNCHANGED <<clock, running, withdrawn, sent, verdict>>

\* What can arrive when a is sent.
AttestationArrivals(a) ==
    {a} \cup {[a EXCEPT !.signature = None], [a EXCEPT !.authenticated_agent_id = None],
              [a EXCEPT !.agent_id = None], [a EXCEPT !.revoked = ~@], [a EXCEPT !.created_at = @ + 1],
              [a EXCEPT !.manifest_digest = trust.manifest]}
        \cup {[a EXCEPT !.defects = {d}] : d \in {"ALGORITHM", "SIZE", "TIER", "TIMESTAMP"}}

Verify(s, a) ==
    /\ verdict' = [attestation |-> a, sent |-> s, intact |-> a = s.message,
                   reason |-> attestation_trust_violation(a)]
    /\ UNCHANGED <<clock, running, withdrawn, trust, sent>>

Tick ==
    /\ clock < MaxClock
    /\ clock' = clock + 1
    /\ UNCHANGED <<running, withdrawn, trust, sent, verdict>>

\* The verifier keeps no state, so one verification at the end stands for all.
AttestationNext ==
    /\ verdict = None
    /\ \/ Tick
       \/ Upgrade
       \/ Withdraw
       \/ \E drift \in (-Skew)..Skew, tier \in Tiers : Attest(drift, tier)
       \/ \E table \in {"key", "key_id", "manifest"}, n \in DOMAIN Releases \cup {None} : Configure(table, n)
       \/ \E s \in sent : \E a \in AttestationArrivals(s.message) : Verify(s, a)

AttestationSpec == AttestationInit /\ [][AttestationNext]_attestation_vars
-----------------------------------------------------------------------------
Accepted == verdict # None /\ verdict.reason = Valid

(* A revocation takes effect although the verifier remembers nothing: the  *)
(* attestations from before it, delivered again after it, are accepted for *)
(* MaxAge and twice the skew, and no longer.                               *)
RevokedFadesOut ==
    Accepted /\ withdrawn # None => clock <= withdrawn + MaxAge + 2 * Skew

(* What is accepted was signed by the agent as it arrived, in the very     *)
(* release that all three tables stand at: never under tables that are     *)
(* half updated, nor for a release that the tables have moved past.        *)
AcceptedIsCurrent ==
    Accepted => verdict.intact /\ trust = Releases[verdict.sent.release]

(* An attestation is not refused for the clocks: one that arrives          *)
(* undamaged within MaxAge, from an agent that is neither revoked nor in   *)
(* another release than the tables say, is accepted however far, within    *)
(* the skew, the two clocks are apart.                                     *)
FreshIsAccepted ==
    /\ verdict # None /\ verdict.intact
    /\ ~verdict.attestation.revoked
    /\ verdict.attestation.trust_tier \in AcceptedTiers
    /\ trust = Releases[verdict.sent.release]
    /\ clock - verdict.sent.at <= MaxAge
    => Accepted
=============================================================================
