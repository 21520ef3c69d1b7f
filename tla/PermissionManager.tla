-------------------------- MODULE PermissionManager --------------------------
(***************************************************************************)
(* PermissionManager of darb-core: one policy behind a RwLock, one set of  *)
(* single-use grants behind a separate Mutex, shared by several threads.   *)
(*                                                                         *)
(* check and set_config each take the two locks one after the other, so    *)
(* each is two steps here: another thread may run in between.  A policy    *)
(* carries a version number, so that the properties can say which policy   *)
(* a confirmation was given under.                                         *)
(***************************************************************************)
EXTENDS Policy

CONSTANTS
  Threads,       \* callers of the shared manager: the UI, the agent task
  Requests,      \* (tool, target) keys
  KindOf,        \* the kind of each request
  UserConfig,    \* the permissions of the user's config file
  MaxApprovals,  \* bound: confirmations given per request
  MaxChanges     \* bound: policy changes

ASSUME PermissionsAssumption ==
  /\ Requests # {}
  /\ KindOf \in [Requests -> Kinds]
  /\ UserConfig \in Configs
  /\ MaxApprovals \in Nat
  /\ MaxChanges \in Nat

VARIABLES
  config,     \* RwLock<PermissionsConfig>
  grants,     \* Mutex<HashSet<(tool, target)>>
  pc,         \* where each thread is: idle, in check, in set_config
  asked,      \* the request a check in progress is about
  last,       \* the outcome of each thread's last check

  \* History, read by the properties only.
  mode,       \* the mode whose ceiling the policy in force was made with
  version,    \* policies written so far
  settled,    \* newest policy whose set_config has returned
  writing,    \* the policy version a thread in set_config wrote
  began,      \* settled, when each thread's last check began
  givenAt,    \* the policy version each request was last confirmed under
  approved,   \* times the user confirmed each request
  spent       \* times a confirmation let each request through

lockVars == <<config, grants, pc, asked, last>>
history == <<mode, version, settled, writing, began, givenAt, approved, spent>>
vars == <<lockVars, history>>

NoOutcome == [verdict |-> "none", granted |-> FALSE, given |-> 0]

Outcomes == [verdict : Verdicts \cup {"none"}, granted : BOOLEAN, given : Nat]

Init ==
  /\ config = UserConfig
  /\ grants = {}
  /\ pc = [t \in Threads |-> "idle"]
  /\ asked = [t \in Threads |-> CHOOSE r \in Requests : TRUE]
  /\ last = [t \in Threads |-> NoOutcome]
  /\ mode = "none"
  /\ version = 0
  /\ settled = 0
  /\ writing = [t \in Threads |-> 0]
  /\ began = [t \in Threads |-> 0]
  /\ givenAt = [r \in Requests |-> 0]
  /\ approved = [r \in Requests |-> 0]
  /\ spent = [r \in Requests |-> 0]

-----------------------------------------------------------------------------
(* check, first lock: one snapshot decides; only a question goes on to the *)
(* grants.                                                                 *)
CheckSnapshot(t, r) ==
  /\ pc[t] = "idle"
  /\ asked' = [asked EXCEPT ![t] = r]
  /\ LET verdict == Evaluate(KindOf[r], config) IN
     IF verdict = "AskUser"
     THEN /\ pc' = [pc EXCEPT ![t] = "check"]
          /\ UNCHANGED last
     ELSE /\ last' = [last EXCEPT ![t] = [verdict |-> verdict, granted |-> FALSE, given |-> 0]]
          /\ UNCHANGED pc
  /\ began' = [began EXCEPT ![t] = settled]
  /\ UNCHANGED <<config, grants, mode, version, settled, writing, givenAt, approved, spent>>

(* Mutant of CheckConsume: a grant that was used stays in the set. *)
CheckKeepsGrant(t) ==
  /\ pc[t] = "check"
  /\ LET r == asked[t] IN
     IF r \in grants
     THEN /\ spent' = [spent EXCEPT ![r] = @ + 1]
          /\ last' = [last EXCEPT ![t] =
                        [verdict |-> "Allowed", granted |-> TRUE, given |-> givenAt[r]]]
     ELSE /\ last' = [last EXCEPT ![t] = [verdict |-> "AskUser", granted |-> FALSE, given |-> 0]]
          /\ UNCHANGED spent
  /\ pc' = [pc EXCEPT ![t] = "idle"]
  /\ UNCHANGED <<config, grants, asked, mode, version, settled, writing, began, givenAt, approved>>

(* check, second lock: a grant is removed and lets the request through;    *)
(* without one the question stands.                                        *)
CheckConsume(t) ==
  /\ pc[t] = "check"
  /\ LET r == asked[t] IN
     IF r \in grants
     THEN /\ grants' = grants \ {r}
          /\ spent' = [spent EXCEPT ![r] = @ + 1]
          /\ last' = [last EXCEPT ![t] =
                        [verdict |-> "Allowed", granted |-> TRUE, given |-> givenAt[r]]]
     ELSE /\ last' = [last EXCEPT ![t] = [verdict |-> "AskUser", granted |-> FALSE, given |-> 0]]
          /\ UNCHANGED <<grants, spent>>
  /\ pc' = [pc EXCEPT ![t] = "idle"]
  /\ UNCHANGED <<config, asked, mode, version, settled, writing, began, givenAt, approved>>

(* grant_once: the user said yes to exactly this tool and target. *)
GrantOnce(t, r) ==
  /\ pc[t] = "idle"
  /\ approved[r] < MaxApprovals
  /\ grants' = grants \cup {r}
  /\ approved' = [approved EXCEPT ![r] = @ + 1]
  /\ givenAt' = [givenAt EXCEPT ![r] = version]
  /\ UNCHANGED <<config, pc, asked, last, mode, version, settled, writing, began, spent>>

(* set_config, first lock.  The callers pass the user's configuration      *)
(* tightened to a mode.                                                    *)
SetConfigWrite(t, m) ==
  /\ pc[t] = "idle"
  /\ version < MaxChanges
  /\ config' = ApplyTo(m, UserConfig)
  /\ mode' = m
  /\ version' = version + 1
  /\ writing' = [writing EXCEPT ![t] = version + 1]
  /\ pc' = [pc EXCEPT ![t] = "set_config"]
  /\ UNCHANGED <<grants, asked, last, settled, began, givenAt, approved, spent>>

(* Mutant of SetConfigClear: the outstanding grants survive. *)
SetConfigKeepsGrants(t) ==
  /\ pc[t] = "set_config"
  /\ settled' = IF writing[t] > settled THEN writing[t] ELSE settled
  /\ pc' = [pc EXCEPT ![t] = "idle"]
  /\ UNCHANGED <<config, grants, asked, last, mode, version, writing, began, givenAt, approved,
                 spent>>

(* set_config, second lock: every outstanding grant is dropped. *)
SetConfigClear(t) ==
  /\ pc[t] = "set_config"
  /\ grants' = {}
  /\ settled' = IF writing[t] > settled THEN writing[t] ELSE settled
  /\ pc' = [pc EXCEPT ![t] = "idle"]
  /\ UNCHANGED <<config, asked, last, mode, version, writing, began, givenAt, approved, spent>>

Next ==
  \E t \in Threads :
    \/ \E r \in Requests : CheckSnapshot(t, r)
    \/ CheckConsume(t)
    \/ \E r \in Requests : GrantOnce(t, r)
    \/ \E m \in AiModes : SetConfigWrite(t, m)
    \/ SetConfigClear(t)

Spec == Init /\ [][Next]_vars

-----------------------------------------------------------------------------
(* Type invariant. *)
TypeOK ==
  /\ config \in Configs
  /\ grants \subseteq Requests
  /\ pc \in [Threads -> {"idle", "check", "set_config"}]
  /\ asked \in [Threads -> Requests]
  /\ last \in [Threads -> Outcomes]
  /\ mode \in AiModes \cup {"none"}
  /\ version \in Nat
  /\ settled \in Nat
  /\ writing \in [Threads -> Nat]
  /\ began \in [Threads -> Nat]
  /\ givenAt \in [Requests -> Nat]
  /\ approved \in [Requests -> Nat]
  /\ spent \in [Requests -> Nat]

(* "Single-use user confirmations": however the threads interleave, a      *)
(* request gets past a question at most as often as the user confirmed it, *)
(* counting the confirmation still waiting in the set.                     *)
ConfirmationsSpentOnce ==
  \A r \in Requests : spent[r] + (IF r \in grants THEN 1 ELSE 0) <= approved[r]

(* "Outstanding grants are dropped": a check that began after set_config   *)
(* returned never uses a confirmation given under an older policy, even    *)
(* when several threads change the policy and check at the same time.      *)
ConsentDiesWithItsPolicy ==
  \A t \in Threads : last[t].granted /\ pc[t] = "idle" => last[t].given >= began[t]

(* Grants never override a denial and never stand in for one another: what *)
(* a check let through is a kind policy can allow, and the kinds that      *)
(* escalate are let through by a confirmation only.                        *)
HighRiskNeedsConsent ==
  \A t \in Threads :
    pc[t] = "idle" /\ last[t].verdict = "Allowed" =>
      /\ KindOf[asked[t]] \notin {"shell_sudo", "unknown"}
      /\ KindOf[asked[t]] \in {"shell_push", "shell_destructive"} => last[t].granted

(* "A mode is a ceiling": once a mode is applied the policy in force is    *)
(* never looser than the ceiling of that mode, nor than what the user      *)
(* configured, in any category.                                            *)
PolicyUnderCeiling ==
  mode # "none" =>
    \A c \in Categories :
      /\ Strictness(config[c]) >= Strictness(Ceiling(mode)[c])
      /\ Strictness(config[c]) >= Strictness(UserConfig[c])
=============================================================================
