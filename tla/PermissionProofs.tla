-------------------------- MODULE PermissionProofs --------------------------
(***************************************************************************)
(* Proofs about PermissionManager, for every set of threads and requests,  *)
(* every user configuration and every bound.                               *)
(***************************************************************************)
EXTENDS PermissionManager, TLAPS

(* The order of the two locks is what the invariants rest on: a grant      *)
(* still in the set was given under a policy at least as new as any        *)
(* set_config that has returned, because its clear came after its write.   *)
GrantsAreFresh ==
  /\ settled <= version
  /\ \A t \in Threads : writing[t] <= version
  /\ \A t \in Threads : began[t] <= settled
  /\ \A r \in grants : givenAt[r] >= settled

(* What a thread knows between the two locks of check, and afterwards. *)
OutcomesBacked ==
  \A t \in Threads :
    /\ pc[t] = "check" => KindOf[asked[t]] \notin {"shell_sudo", "unknown"}
    /\ pc[t] # "check" /\ last[t].granted => last[t].given >= began[t]
    /\ pc[t] # "check" /\ last[t].verdict = "Allowed" =>
         /\ KindOf[asked[t]] \notin {"shell_sudo", "unknown"}
         /\ KindOf[asked[t]] \in {"shell_push", "shell_destructive"} => last[t].granted

PolicyFromMode == mode # "none" => config = ApplyTo(mode, UserConfig)

IInv ==
  /\ TypeOK
  /\ ConfirmationsSpentOnce
  /\ GrantsAreFresh
  /\ OutcomesBacked
  /\ PolicyFromMode

-----------------------------------------------------------------------------
(* apply_to yields a configuration, whatever it is given. *)
LEMMA ApplyToType ==
  ASSUME NEW m \in AiModes, NEW cfg \in Configs
  PROVE  ApplyTo(m, cfg) \in Configs
BY DEF ApplyTo, Configs, Categories, Decisions, Stricter, Ceiling, AiModes

(* apply_to only tightens: in every category the result is at least as     *)
(* strict as the configuration it was given and as the ceiling.            *)
THEOREM ApplyToTightens ==
  ASSUME NEW m \in AiModes, NEW cfg \in Configs, NEW c \in Categories
  PROVE  /\ Strictness(ApplyTo(m, cfg)[c]) >= Strictness(Ceiling(m)[c])
         /\ Strictness(ApplyTo(m, cfg)[c]) >= Strictness(cfg[c])
<1>1. cfg[c] \in Decisions /\ Ceiling(m)[c] \in Decisions
  BY DEF Configs, Ceiling, Categories, Decisions
<1>2. ASSUME NEW a \in Decisions, NEW b \in Decisions
      PROVE  /\ Strictness(Stricter(a, b)) >= Strictness(a)
             /\ Strictness(Stricter(a, b)) >= Strictness(b)
  BY <1>2 DEF Strictness, Stricter, Decisions
<1>3. CASE c = "git_push"
  BY <1>1, <1>3 DEF ApplyTo, Strictness, Decisions, Categories
<1>4. CASE c # "git_push"
  <2>1. ApplyTo(m, cfg)[c] = Stricter(cfg[c], Ceiling(m)[c])
    BY <1>4 DEF ApplyTo
  <2>. QED BY <1>1, <1>2, <2>1
<1>. QED BY <1>3, <1>4

(* What the rules never let through without a question, whatever the       *)
(* configuration says.                                                     *)
LEMMA EvaluateFloor ==
  ASSUME NEW k \in Kinds, NEW cfg \in Configs
  PROVE  /\ Evaluate(k, cfg) \in Verdicts
         /\ Evaluate(k, cfg) = "Allowed" =>
              k \notin {"shell_sudo", "unknown", "shell_push", "shell_destructive"}
         /\ Evaluate(k, cfg) = "AskUser" => k \notin {"shell_sudo", "unknown"}
BY DEF Evaluate, CheckShell, Decide, Escalate, Verdicts, Kinds, Categories

-----------------------------------------------------------------------------
LEMMA OutcomeType ==
  ASSUME NEW v \in Verdicts \cup {"none"}, NEW n \in Nat
  PROVE  /\ [verdict |-> v, granted |-> TRUE, given |-> n] \in Outcomes
         /\ [verdict |-> v, granted |-> FALSE, given |-> n] \in Outcomes
BY DEF Outcomes

LEMMA InitIInv == Init => IInv
<1>. SUFFICES ASSUME Init PROVE IInv
  OBVIOUS
<1>0. (CHOOSE r \in Requests : TRUE) \in Requests
  BY PermissionsAssumption
<1>1. TypeOK
  <2>1. NoOutcome \in Outcomes
    BY OutcomeType DEF NoOutcome
  <2>2. config \in Configs /\ asked \in [Threads -> Requests]
    BY <1>0, PermissionsAssumption DEF Init
  <2>3. last \in [Threads -> Outcomes]
    BY <2>1 DEF Init
  <2>. QED BY <2>2, <2>3 DEF Init, TypeOK
<1>2. ConfirmationsSpentOnce /\ GrantsAreFresh /\ PolicyFromMode
  BY DEF Init, ConfirmationsSpentOnce, GrantsAreFresh, PolicyFromMode
<1>3. OutcomesBacked
  BY DEF Init, OutcomesBacked, NoOutcome
<1>. QED BY <1>1, <1>2, <1>3 DEF IInv

LEMMA CheckSnapshotIInv ==
  ASSUME IInv, NEW t \in Threads, NEW r \in Requests, CheckSnapshot(t, r)
  PROVE  IInv'
<1>0. TypeOK /\ ConfirmationsSpentOnce /\ GrantsAreFresh /\ OutcomesBacked /\ PolicyFromMode
  BY DEF IInv
<1>1. KindOf[r] \in Kinds /\ config \in Configs
  BY <1>0, PermissionsAssumption DEF TypeOK
<1>2. Evaluate(KindOf[r], config) \in Verdicts
  BY <1>1, EvaluateFloor
<1>3. TypeOK'
  <2>1. [verdict |-> Evaluate(KindOf[r], config), granted |-> FALSE, given |-> 0] \in Outcomes
    BY <1>2, OutcomeType
  <2>2. last' \in [Threads -> Outcomes]
    BY <1>0, <2>1 DEF CheckSnapshot, TypeOK
  <2>. QED BY <1>0, <2>2 DEF CheckSnapshot, TypeOK
<1>4. ConfirmationsSpentOnce' /\ PolicyFromMode'
  BY <1>0 DEF CheckSnapshot, ConfirmationsSpentOnce, PolicyFromMode
<1>5. GrantsAreFresh'
  BY <1>0 DEF CheckSnapshot, GrantsAreFresh, TypeOK
<1>6. OutcomesBacked'
  <2>. SUFFICES ASSUME NEW s \in Threads
                PROVE  /\ pc'[s] = "check" => KindOf[asked'[s]] \notin {"shell_sudo", "unknown"}
                       /\ pc'[s] # "check" /\ last'[s].granted => last'[s].given >= began'[s]
                       /\ pc'[s] # "check" /\ last'[s].verdict = "Allowed" =>
                            /\ KindOf[asked'[s]] \notin {"shell_sudo", "unknown"}
                            /\ KindOf[asked'[s]] \in {"shell_push", "shell_destructive"}
                                 => last'[s].granted
    BY DEF OutcomesBacked
  <2>1. CASE s # t
    BY <1>0, <2>1 DEF CheckSnapshot, OutcomesBacked, TypeOK
  <2>2. CASE s = t /\ Evaluate(KindOf[r], config) = "AskUser"
    BY <1>0, <1>1, <2>2, EvaluateFloor DEF CheckSnapshot, TypeOK
  <2>3. CASE s = t /\ Evaluate(KindOf[r], config) # "AskUser"
    BY <1>0, <1>1, <2>3, EvaluateFloor DEF CheckSnapshot, TypeOK
  <2>. QED BY <2>1, <2>2, <2>3
<1>. QED BY <1>3, <1>4, <1>5, <1>6 DEF IInv

LEMMA CheckConsumeIInv ==
  ASSUME IInv, NEW t \in Threads, CheckConsume(t)
  PROVE  IInv'
<1>0. TypeOK /\ ConfirmationsSpentOnce /\ GrantsAreFresh /\ OutcomesBacked /\ PolicyFromMode
  BY DEF IInv
<1>1. TypeOK'
  <2>1. /\ [verdict |-> "Allowed", granted |-> TRUE, given |-> givenAt[asked[t]]] \in Outcomes
        /\ [verdict |-> "AskUser", granted |-> FALSE, given |-> 0] \in Outcomes
    BY <1>0, OutcomeType DEF TypeOK, Verdicts
  <2>2. last' \in [Threads -> Outcomes]
    BY <1>0, <2>1 DEF CheckConsume, TypeOK
  <2>3. grants' \subseteq Requests /\ spent' \in [Requests -> Nat]
    BY <1>0 DEF CheckConsume, TypeOK
  <2>. QED BY <1>0, <2>2, <2>3 DEF CheckConsume, TypeOK
<1>2. ConfirmationsSpentOnce'
  BY <1>0 DEF CheckConsume, ConfirmationsSpentOnce, TypeOK
<1>3. GrantsAreFresh' /\ PolicyFromMode'
  BY <1>0 DEF CheckConsume, GrantsAreFresh, PolicyFromMode, TypeOK
<1>4. OutcomesBacked'
  <2>. SUFFICES ASSUME NEW s \in Threads
                PROVE  /\ pc'[s] = "check" => KindOf[asked'[s]] \notin {"shell_sudo", "unknown"}
                       /\ pc'[s] # "check" /\ last'[s].granted => last'[s].given >= began'[s]
                       /\ pc'[s] # "check" /\ last'[s].verdict = "Allowed" =>
                            /\ KindOf[asked'[s]] \notin {"shell_sudo", "unknown"}
                            /\ KindOf[asked'[s]] \in {"shell_push", "shell_destructive"}
                                 => last'[s].granted
    BY DEF OutcomesBacked
  <2>1. CASE s # t
    BY <1>0, <2>1 DEF CheckConsume, OutcomesBacked, TypeOK
  <2>2. CASE s = t /\ asked[t] \in grants
    <3>1. givenAt[asked[t]] >= began[t]
      BY <1>0, <2>2 DEF GrantsAreFresh, TypeOK
    <3>2. KindOf[asked[t]] \notin {"shell_sudo", "unknown"}
      BY <1>0 DEF OutcomesBacked, CheckConsume
    <3>. QED BY <1>0, <2>2, <3>1, <3>2 DEF CheckConsume, TypeOK
  <2>3. CASE s = t /\ asked[t] \notin grants
    BY <1>0, <2>3 DEF CheckConsume, TypeOK
  <2>. QED BY <2>1, <2>2, <2>3
<1>. QED BY <1>1, <1>2, <1>3, <1>4 DEF IInv

LEMMA GrantOnceIInv ==
  ASSUME IInv, NEW t \in Threads, NEW r \in Requests, GrantOnce(t, r)
  PROVE  IInv'
<1>0. TypeOK /\ ConfirmationsSpentOnce /\ GrantsAreFresh /\ OutcomesBacked /\ PolicyFromMode
  BY DEF IInv
<1>1. TypeOK'
  BY <1>0 DEF GrantOnce, TypeOK
<1>2. ConfirmationsSpentOnce'
  BY <1>0 DEF GrantOnce, ConfirmationsSpentOnce, TypeOK
<1>3. GrantsAreFresh' /\ PolicyFromMode'
  BY <1>0 DEF GrantOnce, GrantsAreFresh, PolicyFromMode, TypeOK
<1>4. OutcomesBacked'
  BY <1>0 DEF GrantOnce, OutcomesBacked
<1>. QED BY <1>1, <1>2, <1>3, <1>4 DEF IInv

LEMMA SetConfigWriteIInv ==
  ASSUME IInv, NEW t \in Threads, NEW m \in AiModes, SetConfigWrite(t, m)
  PROVE  IInv'
<1>0. TypeOK /\ ConfirmationsSpentOnce /\ GrantsAreFresh /\ OutcomesBacked /\ PolicyFromMode
  BY DEF IInv
<1>1. TypeOK'
  BY <1>0, ApplyToType, PermissionsAssumption DEF SetConfigWrite, TypeOK
<1>2. ConfirmationsSpentOnce' /\ PolicyFromMode'
  BY <1>0 DEF SetConfigWrite, ConfirmationsSpentOnce, PolicyFromMode
<1>3. GrantsAreFresh'
  BY <1>0 DEF SetConfigWrite, GrantsAreFresh, TypeOK
<1>4. OutcomesBacked'
  BY <1>0 DEF SetConfigWrite, OutcomesBacked, TypeOK
<1>. QED BY <1>1, <1>2, <1>3, <1>4 DEF IInv

LEMMA SetConfigClearIInv ==
  ASSUME IInv, NEW t \in Threads, SetConfigClear(t)
  PROVE  IInv'
<1>0. TypeOK /\ ConfirmationsSpentOnce /\ GrantsAreFresh /\ OutcomesBacked /\ PolicyFromMode
  BY DEF IInv
<1>1. TypeOK'
  BY <1>0 DEF SetConfigClear, TypeOK
<1>2. ConfirmationsSpentOnce' /\ PolicyFromMode'
  BY <1>0 DEF SetConfigClear, ConfirmationsSpentOnce, PolicyFromMode, TypeOK
<1>3. GrantsAreFresh'
  BY <1>0 DEF SetConfigClear, GrantsAreFresh, TypeOK
<1>4. OutcomesBacked'
  BY <1>0 DEF SetConfigClear, OutcomesBacked, TypeOK
<1>. QED BY <1>1, <1>2, <1>3, <1>4 DEF IInv

(* The inductive invariant holds of every behaviour. *)
THEOREM Inductive == Spec => []IInv
<1>1. ASSUME IInv, [Next]_vars
      PROVE  IInv'
  <2>1. CASE Next
    BY <1>1, <2>1, CheckSnapshotIInv, CheckConsumeIInv, GrantOnceIInv,
       SetConfigWriteIInv, SetConfigClearIInv DEF Next
  <2>2. CASE UNCHANGED vars
    BY <1>1, <2>2 DEF IInv, TypeOK, ConfirmationsSpentOnce, GrantsAreFresh, OutcomesBacked,
       PolicyFromMode, vars, lockVars, history
  <2>. QED BY <1>1, <2>1, <2>2
<1>. QED BY InitIInv, <1>1, PTL DEF Spec

(* Policy, grants and checks keep their types under every interleaving.     *)
THEOREM Typed == Spec => []TypeOK
<1>1. IInv => TypeOK
  BY DEF IInv
<1>. QED BY <1>1, Inductive, PTL

(* A confirmation lets at most one check through, on every interleaving. *)
THEOREM SpentOnce == Spec => []ConfirmationsSpentOnce
<1>1. IInv => ConfirmationsSpentOnce
  BY DEF IInv
<1>. QED BY <1>1, Inductive, PTL

(* A check that began after set_config returned never uses an older        *)
(* confirmation.                                                           *)
THEOREM ConsentDies == Spec => []ConsentDiesWithItsPolicy
<1>1. IInv => ConsentDiesWithItsPolicy
  BY DEF IInv, OutcomesBacked, ConsentDiesWithItsPolicy
<1>. QED BY <1>1, Inductive, PTL

(* sudo and unknown tools are never let through, pushes and destructive    *)
(* commands only by a confirmation, under every configuration.             *)
THEOREM HighRisk == Spec => []HighRiskNeedsConsent
<1>1. IInv => HighRiskNeedsConsent
  BY DEF IInv, OutcomesBacked, HighRiskNeedsConsent
<1>. QED BY <1>1, Inductive, PTL

(* The policy in force is never looser than the mode or the user's file.   *)
THEOREM UnderCeiling == Spec => []PolicyUnderCeiling
<1>1. IInv => PolicyUnderCeiling
  <2>. SUFFICES ASSUME IInv, mode # "none", NEW c \in Categories
                PROVE  /\ Strictness(config[c]) >= Strictness(Ceiling(mode)[c])
                       /\ Strictness(config[c]) >= Strictness(UserConfig[c])
    BY DEF PolicyUnderCeiling
  <2>1. mode \in AiModes /\ config = ApplyTo(mode, UserConfig)
    BY DEF IInv, TypeOK, PolicyFromMode
  <2>. QED BY <2>1, ApplyToTightens, PermissionsAssumption
<1>. QED BY <1>1, Inductive, PTL
=============================================================================
