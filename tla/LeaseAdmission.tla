--------------------------- MODULE LeaseAdmission ---------------------------
(***************************************************************************)
(* validate_lease_for_command as time passes: a lease, a command and a     *)
(* robot state are presented again and again, unchanged, to an edge whose  *)
(* clock advances.  The rule compares the state with the lease, the lease  *)
(* with the policy's bounds, and every timestamp with the clock; the       *)
(* properties relate the ends of these chains to each other.               *)
(***************************************************************************)
EXTENDS LeaseRules

CONSTANTS
    LeaseInputs,     \* leases that may be presented
    CommandInputs,   \* commands
    StateInputs,     \* robot states; None is presented too
    MaxNow           \* bound: the clock stops here

Number == Int \cup {None}

(* The messages have the fields that models.py declares, with numbers      *)
(* where it declares numbers; a configured bound is a number or absent.    *)
ASSUME InputsAssumption ==
    /\ None \notin Int
    /\ None \notin LeaseInputs \cup StateInputs
    /\ MaxNow \in Nat
    /\ \A l \in LeaseInputs :
          /\ l.issued_at \in Number /\ l.expires_at \in Number
          /\ l.constraints.max_latency \in Number
          /\ l.constraints.max_loss \in Number
          /\ l.constraints.min_uplink \in Number
          /\ l.constraints.max_speed \in Number
    /\ \A c \in CommandInputs : \A f \in DOMAIN c.payload : c.payload[f] \in Int
    /\ \A s \in StateInputs :
          /\ s.network.latency \in Int /\ s.network.loss \in Int /\ s.network.uplink \in Int
          /\ DOMAIN s.stamps = 1..4 /\ \A k \in 1..4 : s.stamps[k] \in Number
    /\ \A cap \in DOMAIN Bounds :
          /\ Bounds[cap].max_latency \in Number
          /\ Bounds[cap].max_loss \in Number
          /\ Bounds[cap].min_uplink \in Number
          /\ Bounds[cap].max_speed \in Number

VARIABLES lease, command, state, now,
          phase   \* the messages are not admitted yet, are admitted, or have been

vars == <<lease, command, state, now, phase>>

Verdict(at) == validate_lease_for_command(lease, command, state, {}, at)

Init ==
    /\ lease \in LeaseInputs
    /\ command \in CommandInputs
    /\ state \in StateInputs \cup {None}
    /\ now = 0
    /\ phase = IF Verdict(0) = Valid THEN "during" ELSE "before"

Tick ==
    /\ now < MaxNow
    /\ now' = now + 1
    /\ phase' = CASE Verdict(now + 1) = Valid -> "during"
                  [] Verdict(now + 1) # Valid /\ phase = "during" -> "after"
                  [] OTHER -> phase
    /\ UNCHANGED <<lease, command, state>>

Spec == Init /\ [][Tick]_vars

-----------------------------------------------------------------------------
Admitted == Verdict(now) = Valid

(* The gate compares the robot's network only with the lease and the lease *)
(* only with the policy's bounds.  Together this keeps every command that  *)
(* is admitted within the policy: where the policy requires network        *)
(* constraints, the robot's own signed measurements are inside the         *)
(* policy's bounds; where it requires a speed limit, every speed in the    *)
(* payload is between zero and the policy's maximum.                       *)
AdmittedWithinPolicy ==
    Admitted =>
        LET cap == lease.ctx.capability
        IN  /\ Requirements[cap].network =>
                  /\ state # None
                  /\ state.network.latency <= Bounds[cap].max_latency
                  /\ state.network.loss <= Bounds[cap].max_loss
                  /\ state.network.uplink >= Bounds[cap].min_uplink
            /\ Requirements[cap].max_speed =>
                  \A f \in DOMAIN command.payload :
                      command.payload[f] >= 0 /\ command.payload[f] <= Bounds[cap].max_speed

(* Where the policy names a geofence, an admitted command comes with an    *)
(* authentic state of this robot that places it inside that geofence.      *)
AdmittedInsideGeofence ==
    Admitted /\ Bounds[lease.ctx.capability].geofence_id # None =>
        /\ state # None
        /\ state_auth_violation(state) = Valid
        /\ state.robot = command.ctx.robot
        /\ state.geofence.inside
        /\ state.geofence.id = Bounds[lease.ctx.capability].geofence_id

(* An admission is current: the lease has not expired, was not issued      *)
(* further ahead than the allowed skew, is not older than the longest      *)
(* lifetime the edge accepts, and no timestamp of the state is too old.    *)
AdmittedWhileCurrent ==
    Admitted =>
        /\ now < lease.expires_at
        /\ lease.issued_at <= now + ClockSkew
        /\ now - lease.issued_at < MaxLeaseTtl
        /\ state # None => \A k \in DOMAIN state.stamps :
               /\ state.stamps[k] <= now + ClockSkew
               /\ now - state.stamps[k] <= MaxStateAge + ClockSkew

(* Messages are admitted during one stretch of time at most: what has      *)
(* become inadmissible with time (an expired lease, a stale state) never   *)
(* becomes admissible again, whatever skew each check allows.              *)
AdmissionIsOneInterval == [][phase = "after" => phase' = "after"]_vars
=============================================================================
