-------------------------- MODULE LeaseRulesProofs --------------------------
(***************************************************************************)
(* Facts about the ladders of LeaseRules, for every configuration of the   *)
(* gate and every message.                                                 *)
(***************************************************************************)
EXTENDS LeaseRules, TLAPS, WellFoundedInduction

(* Every non-empty set of positions of a ladder has a first one.           *)
LEMMA FirstPosition ==
    ASSUME NEW bad \in SUBSET Nat, bad # {}
    PROVE  \E i \in bad : \A j \in bad : i <= j
<1>1. PICK i \in bad : \A j \in bad : ~ (<<j, i>> \in OpToRel(<, Nat))
    BY NatLessThanWellFounded, WFMin, Zenon
<1>2. \A j \in bad : ~ (j < i)
    BY <1>1 DEF OpToRel
<1>3. \A j \in bad : i <= j
    BY <1>2
<1> QED
    BY <1>3

(* FirstViolation answers Valid when no check of the ladder is violated,   *)
(* and otherwise the reason of a violated check before which none is.      *)
LEMMA LadderAnswer ==
    ASSUME NEW checks, DOMAIN checks \subseteq Nat
    PROVE  \/ /\ \A i \in DOMAIN checks : ~checks[i][1]
              /\ FirstViolation(checks) = Valid
           \/ \E i \in DOMAIN checks :
                 /\ checks[i][1]
                 /\ \A j \in DOMAIN checks : checks[j][1] => i <= j
                 /\ FirstViolation(checks) = checks[i][2]
<1> DEFINE bad == {i \in DOMAIN checks : checks[i][1]}
<1>1. CASE bad = {}
    BY <1>1 DEF FirstViolation
<1>2. CASE bad # {}
    <2> DEFINE first == CHOOSE i \in bad : \A j \in bad : i <= j
    <2>1. \E i \in bad : \A j \in bad : i <= j
        BY <1>2, FirstPosition
    <2>2. first \in bad /\ \A j \in bad : first <= j
        BY <2>1
    <2>3. FirstViolation(checks) = checks[first][2]
        BY <1>2 DEF FirstViolation
    <2> QED
        BY <2>2, <2>3
<1> QED
    BY <1>1, <1>2

(* When no violated check has the reason Valid, a ladder that answers      *)
(* Valid has no violated check: nothing is let through by the encoding.    *)
LEMMA LadderClear ==
    ASSUME NEW checks, DOMAIN checks \subseteq Nat,
           \A i \in DOMAIN checks : checks[i][1] => checks[i][2] # Valid,
           FirstViolation(checks) = Valid
    PROVE  \A i \in DOMAIN checks : ~checks[i][1]
BY LadderAnswer

(* A rule used as a check of a larger ladder never hides an answer Valid.  *)
LEMMA SubClear == ASSUME NEW r PROVE Sub(r)[1] => Sub(r)[2] # Valid
BY DEF Sub

(* A rule that is one check of a ladder holds when that check does.        *)
LEMMA SubHolds == ASSUME NEW r, ~Sub(r)[1] PROVE r = Valid
BY DEF Sub

(* A rule used as a check is violated when it finds something, and answers *)
(* with what it finds.                                                     *)
LEMMA SubAnswer == ASSUME NEW r PROVE (Sub(r)[1] <=> r # Valid) /\ Sub(r)[2] = r
BY DEF Sub

(* A ladder with a violated check answers with the first one.              *)
LEMMA LadderFirst ==
    ASSUME NEW checks, NEW n \in Nat, DOMAIN checks = 1..n, NEW k \in 1..n, checks[k][1]
    PROVE  \E i \in 1..n : /\ checks[i][1]
                           /\ \A j \in 1..n : checks[j][1] => i <= j
                           /\ FirstViolation(checks) = checks[i][2]
<1>1. DOMAIN checks \subseteq Nat /\ k \in DOMAIN checks
    OBVIOUS
<1>2. PICK i \in DOMAIN checks : /\ checks[i][1]
                                /\ \A j \in DOMAIN checks : checks[j][1] => i <= j
                                /\ FirstViolation(checks) = checks[i][2]
    BY <1>1, LadderAnswer
<1> QED
    BY <1>2

(* A ladder that answers something has a violated check.                   *)
LEMMA LadderViolated ==
    ASSUME NEW checks, NEW n \in Nat, DOMAIN checks = 1..n, FirstViolation(checks) # Valid
    PROVE  \E k \in 1..n : checks[k][1]
<1>1. DOMAIN checks \subseteq Nat
    OBVIOUS
<1> QED
    BY <1>1, LadderAnswer

(* A ladder without a violated check answers Valid.                        *)
LEMMA LadderPass ==
    ASSUME NEW checks, NEW n \in Nat, DOMAIN checks = 1..n, \A i \in 1..n : ~checks[i][1]
    PROVE  FirstViolation(checks) = Valid
<1>1. DOMAIN checks \subseteq Nat
    OBVIOUS
<1> QED
    BY <1>1, LadderAnswer

(* A ladder in which only one rule can find something answers with it.     *)
LEMMA LadderOnly ==
    ASSUME NEW checks, NEW n \in Nat, DOMAIN checks = 1..n, NEW k \in 1..n, NEW r,
           checks[k] = Sub(r), \A i \in 1..n : i # k => ~checks[i][1]
    PROVE  FirstViolation(checks) = r
<1>1. CASE r = Valid
    <2>1. ~checks[k][1]
        BY <1>1, SubAnswer
    <2>2. \A i \in 1..n : ~checks[i][1]
        BY <2>1
    <2> QED
        BY <1>1, <2>2, LadderPass
<1>2. CASE r # Valid
    <2>1. checks[k][1] /\ checks[k][2] = r
        BY <1>2, SubAnswer
    <2>2. PICK i \in 1..n : checks[i][1] /\ FirstViolation(checks) = checks[i][2]
        BY <2>1, LadderFirst
    <2> QED
        BY <2>1, <2>2
<1> QED
    BY <1>1, <1>2

(* A ladder answers Valid or with the reason of one of its violated checks. *)
LEMMA LadderIn ==
    ASSUME NEW checks, NEW n \in Nat, DOMAIN checks = 1..n, NEW R, Valid \in R,
           \A i \in 1..n : checks[i][1] => checks[i][2] \in R
    PROVE  FirstViolation(checks) \in R
<1>1. CASE \E k \in 1..n : checks[k][1]
    BY <1>1, LadderFirst
<1>2. CASE \A k \in 1..n : ~checks[k][1]
    BY <1>2, LadderPass
<1> QED
    BY <1>1, <1>2

(* A ladder that is violated wherever another one is answers Valid only if *)
(* the other does.                                                         *)
LEMMA LadderMonotone ==
    ASSUME NEW checks, NEW worse, DOMAIN checks \subseteq Nat, DOMAIN worse = DOMAIN checks,
           \A i \in DOMAIN checks : checks[i][1] => worse[i][1],
           \A i \in DOMAIN worse : worse[i][1] => worse[i][2] # Valid,
           FirstViolation(worse) = Valid
    PROVE  FirstViolation(checks) = Valid
<1>1. \A i \in DOMAIN worse : ~worse[i][1]
    BY LadderClear
<1>2. \A i \in DOMAIN checks : ~checks[i][1]
    BY <1>1
<1> QED
    BY <1>2, LadderAnswer

(* What validate_lease_for_command answering LEASE_VALID establishes: none *)
(* of its fourteen checks is violated.                                     *)
LEMMA AdmissionChecks ==
    ASSUME NEW l, NEW c, NEW s, NEW revoked, NEW now,
           validate_lease_for_command(l, c, s, revoked, now) = Valid
    PROVE  /\ l # None
           /\ \A i \in 1..14 : ~admission_checks(l, c, s, revoked, now)[i][1]
<1> DEFINE ladder == admission_checks(l, c, s, revoked, now)
<1>1. l # None /\ FirstViolation(ladder) = Valid
    BY Zenon DEF validate_lease_for_command, Valid
<1>2. DOMAIN ladder = 1..14
    BY DEF admission_checks
<1>3. \A i \in DOMAIN ladder : ladder[i][1] => ladder[i][2] # Valid
    BY <1>2, SubClear DEF admission_checks, Valid
<1> HIDE DEF ladder
<1>4. \A i \in 1..14 : ~ladder[i][1]
    BY <1>1, <1>2, <1>3, LadderClear
<1> QED
    BY <1>1, <1>4 DEF ladder

(* The checks of validate_lease_for_command that the proofs about the gate *)
(* and about admission use, one by one: an admitted lease has passed them. *)
(* Version, policy provenance and capability scope are left to             *)
(* AdmissionChecks.                                                        *)
LEMMA AdmissionFacts ==
    ASSUME NEW l, NEW c, NEW s, NEW revoked, NEW now,
           validate_lease_for_command(l, c, s, revoked, now) = Valid
    PROVE  /\ l.issuer \in TrustedIssuers \cap IssuerKeys
           /\ lease_signature_violation(l) = Valid
           /\ lease_time_violation(l, now) = Valid
           /\ capability_constraint_requirement_violation(l) = Valid
           /\ capability_constraint_bound_violation(l) = Valid
           /\ l.ctx = c.ctx
           /\ l.lease_id \notin revoked
           /\ current_state_violation(l, s, now) = Valid
           /\ validate_command_payload_against_constraints(l, c.payload) = Valid
<1> DEFINE ladder == admission_checks(l, c, s, revoked, now)
<1>1. \A i \in 1..14 : ~ladder[i][1]
    BY AdmissionChecks
<1>2. /\ ladder[2][1] = (l.issuer \notin TrustedIssuers)
      /\ ladder[3][1] = (l.issuer \notin IssuerKeys)
      /\ ladder[4] = Sub(lease_signature_violation(l))
      /\ ladder[7] = Sub(lease_time_violation(l, now))
      /\ ladder[8] = Sub(capability_constraint_requirement_violation(l))
      /\ ladder[10] = Sub(capability_constraint_bound_violation(l))
      /\ ladder[11][1] = ~lease_matches_context(l, c.ctx)
      /\ ladder[12][1] = (l.lease_id \in revoked)
      /\ ladder[13] = Sub(current_state_violation(l, s, now))
      /\ ladder[14] = Sub(validate_command_payload_against_constraints(l, c.payload))
    BY DEF admission_checks
<1> HIDE DEF ladder
<1>3. ~ladder[2][1] /\ ~ladder[3][1] /\ ~ladder[11][1] /\ ~ladder[12][1]
    BY <1>1
<1>4. /\ l.issuer \in TrustedIssuers
      /\ l.issuer \in IssuerKeys
      /\ l.lease_id \notin revoked
      /\ l.ctx = c.ctx
    BY <1>2, <1>3, Zenon DEF lease_matches_context
<1>5. \A i \in {4, 7, 8, 10, 13, 14} : ~ladder[i][1]
    BY <1>1
<1>6. /\ ~Sub(lease_signature_violation(l))[1]
      /\ ~Sub(lease_time_violation(l, now))[1]
      /\ ~Sub(capability_constraint_requirement_violation(l))[1]
      /\ ~Sub(capability_constraint_bound_violation(l))[1]
      /\ ~Sub(current_state_violation(l, s, now))[1]
      /\ ~Sub(validate_command_payload_against_constraints(l, c.payload))[1]
    BY <1>2, <1>5
<1> QED
    BY <1>4, <1>6, SubHolds

=============================================================================
