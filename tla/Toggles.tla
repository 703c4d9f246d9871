------------------------------- MODULE Toggles -------------------------------
(***************************************************************************)
(* Feature toggles: the tables features and feature_toggles, the endpoints *)
(* that write them, and the check of a request to a method that carries    *)
(* @featuresFlag (FeatureFlagActionProvider, StrategyHelperService).  A    *)
(* check reads the tables one strategy after the other while they are      *)
(* written.                                                                *)
(*                                                                         *)
(* There is one feature key: a feature has it or another, and toggles of   *)
(* other keys are left out.  Checks write nothing, so that one at a time   *)
(* shows what each can meet.  The table of strategies is never read.       *)
(***************************************************************************)
EXTENDS Naturals, Sequences, FiniteSets

CONSTANTS
  Tenant, TenantUser,
  Caller,           \* the users that make requests
  Undefined,        \* no user, or no feature of the key
  MaxFeatures, MaxToggles,   \* bounds: the rows ever inserted
  MaxWrites         \* bound: how often the endpoints write

FeatureIds == 1 .. MaxFeatures
ToggleIds == 1 .. MaxToggles
Level == {"System", "Tenant", "User"}
EntityOf(level) ==
  CASE level = "System" -> FeatureIds
    [] level = "Tenant" -> Tenant
    [] level = "User" -> TenantUser

ASSUME TogglesAssumption ==
  /\ MaxFeatures \in Nat /\ MaxToggles \in Nat /\ MaxWrites \in Nat
  /\ Caller \subseteq [tenant : Tenant, user : TenantUser]
  /\ Undefined \notin Caller /\ Undefined \notin FeatureIds \union Tenant \union TenantUser

VARIABLES
  features,   \* table features: what has become of each row
  toggles,    \* table feature_toggles
  check,      \* the request that is being decided
  writes,
  wasOn,      \* the levels that were on at some moment of the check,
  wasOff,     \* off,
  undisturbed \* and whether there was a feature and none has gone since

togglesVars == <<features, toggles, check, writes, wasOn, wasOff, undisturbed>>

NoCheck == [pc |-> "idle", caller |-> Undefined, listed |-> <<>>, todo |-> <<>>,
            entity |-> Undefined]

Keyed == {f \in FeatureIds : features[f] = "keyed"}
FeatureRows == {f \in FeatureIds : features[f] \in {"keyed", "other"}}

-----------------------------------------------------------------------------
(* What the tables say of a level, for a caller. *)

EntitiesFor(caller, level) ==
  IF caller = Undefined THEN {}
  ELSE CASE level = "System" -> Keyed
         [] level = "Tenant" -> {caller.tenant}
         [] level = "User" -> {caller.user}

TogglesOf(level, entity) == {t \in toggles : t.level = level /\ t.entity = entity}

OnFor(caller) ==
  {l \in Level : \E e \in EntitiesFor(caller, l) :
     TogglesOf(l, e) = {} \/ \E t \in TogglesOf(l, e) : t.on}
OffFor(caller) ==
  {l \in Level : \E e \in EntitiesFor(caller, l) : \E t \in TogglesOf(l, e) : ~t.on}

-----------------------------------------------------------------------------
(* FeatureController and FeatureToggleController: every endpoint is one     *)
(* statement.                                                               *)

Endpoint ==
  /\ writes < MaxWrites
  /\ writes' = writes + 1
  /\ UNCHANGED check
  /\ wasOn' = wasOn \union OnFor(check.caller)'
  /\ wasOff' = wasOff \union OffFor(check.caller)'
  /\ undisturbed' = (undisturbed /\ Keyed \subseteq Keyed')

Unused(f) == features[f] = "unused" /\ \A g \in 1 .. (f - 1) : features[g] # "unused"

CreateFeature(f, key) ==
  /\ Unused(f)
  /\ features' = [features EXCEPT ![f] = key]
  /\ UNCHANGED toggles
  /\ Endpoint

UpdateFeatures(rows, key) ==       \* updateAll
  /\ features' = [f \in FeatureIds |-> IF f \in rows THEN key ELSE features[f]]
  /\ UNCHANGED toggles
  /\ Endpoint

UpdateFeature(f, key) ==            \* updateById, and replaceById
  /\ features' = [features EXCEPT ![f] = key]
  /\ UNCHANGED toggles
  /\ Endpoint

DeleteFeature(f) ==
  /\ features' = [features EXCEPT ![f] = "deleted"]
  /\ UNCHANGED toggles
  /\ Endpoint

CreateToggle(level, entity, on) ==
  /\ Cardinality(toggles) < MaxToggles
  /\ LET id == CHOOSE i \in ToggleIds : \A t \in toggles : t.id # i IN
       toggles' = toggles \union {[id |-> id, level |-> level, entity |-> entity, on |-> on]}
  /\ UNCHANGED features
  /\ Endpoint

UpdateToggles(rows, on) ==
  /\ toggles' = (toggles \ rows) \union {[t EXCEPT !.on = on] : t \in rows}
  /\ UNCHANGED features
  /\ Endpoint

UpdateToggle(t, on) ==
  /\ toggles' = (toggles \ {t}) \union {[t EXCEPT !.on = on]}
  /\ UNCHANGED features
  /\ Endpoint

ReplaceToggle(t, level, entity, on) ==
  /\ toggles' = (toggles \ {t}) \union
                  {[id |-> t.id, level |-> level, entity |-> entity, on |-> on]}
  /\ UNCHANGED features
  /\ Endpoint

DeleteToggle(t) ==
  /\ toggles' = toggles \ {t}
  /\ UNCHANGED features
  /\ Endpoint

-----------------------------------------------------------------------------
(* The check. *)

Checks == UNCHANGED <<features, toggles, writes, wasOn, wasOff, undisturbed>>

StartCheck(caller, listed) ==
  /\ check.pc # "find"
  /\ check' = [pc |-> IF listed = <<"*">> THEN "passed" ELSE "find", caller |-> caller,
               listed |-> listed, todo |-> listed, entity |-> Undefined]
  /\ wasOn' = OnFor(caller) /\ wasOff' = OffFor(caller) /\ undisturbed' = (Keyed # {})
  /\ UNCHANGED <<features, toggles, writes>>

\* The System strategy looks for the id of the feature.
FindFeature ==
  /\ check.pc = "find" /\ Head(check.todo) = "System" /\ check.entity = Undefined
  /\ \E id \in IF Keyed = {} THEN {Undefined} ELSE Keyed :
       check' = [check EXCEPT !.entity = id,
                              !.pc = IF id = Undefined THEN "findAny" ELSE "find"]
  /\ Checks

EntityAt(level) ==
  IF level = "System" THEN check.entity
  ELSE IF check.caller = Undefined THEN Undefined
  ELSE IF level = "Tenant" THEN check.caller.tenant ELSE check.caller.user

\* An undefined id is left out of the where clause.
ToggleFound(level, entity) ==
  {t \in toggles : t.level = level /\ entity \in {t.entity, Undefined}}

EnoughIfOne(c, enabled) ==     \* mutant: one level that is on is enough
  [c EXCEPT !.todo = Tail(@), !.entity = Undefined,
            !.pc = IF enabled THEN "passed"
                   ELSE IF Len(c.todo) = 1 THEN "refused" ELSE "find"]

Decided(c, enabled) ==
  [c EXCEPT !.todo = Tail(@), !.entity = Undefined,
            !.pc = IF ~enabled THEN "refused"
                   ELSE IF Len(c.todo) = 1 THEN "passed" ELSE "find"]

\* A level without a toggle is on.
FindToggle ==
  LET level == Head(check.todo)
      found == ToggleFound(level, EntityAt(level)) IN
    /\ check.pc \in {"find", "findAny"}
    /\ level = "System" => check.pc = "findAny" \/ check.entity # Undefined
    /\ \E on \in IF found = {} THEN {TRUE} ELSE {t.on : t \in found} :
         check' = Decided(check, on)
    /\ Checks

CheckFails ==
  /\ check.pc \in {"find", "findAny"}
  /\ check' = [check EXCEPT !.pc = "failed"]
  /\ Checks

-----------------------------------------------------------------------------
TogglesInit ==
  /\ features = [f \in FeatureIds |-> "unused"] /\ toggles = {} /\ check = NoCheck /\ writes = 0
  /\ wasOn = {} /\ wasOff = {} /\ undisturbed = TRUE

Listings == {<<"*">>, <<"System", "Tenant", "User">>, <<"User", "System">>}

TogglesNext ==
  \/ \E b \in BOOLEAN :
       \/ \E rows \in SUBSET toggles : UpdateToggles(rows, b)
       \/ \E t \in toggles : UpdateToggle(t, b)
       \/ \E level \in Level : \E entity \in EntityOf(level) :
            \/ CreateToggle(level, entity, b)
            \/ \E t \in toggles : ReplaceToggle(t, level, entity, b)
  \/ \E f \in FeatureIds, key \in {"keyed", "other"} : CreateFeature(f, key)
  \/ \E rows \in SUBSET FeatureRows, key \in {"keyed", "other"} : UpdateFeatures(rows, key)
  \/ \E f \in FeatureRows, key \in {"keyed", "other"} : UpdateFeature(f, key)
  \/ \E f \in FeatureRows : DeleteFeature(f)
  \/ \E t \in toggles : DeleteToggle(t)
  \/ \E caller \in Caller \union {Undefined}, listed \in Listings : StartCheck(caller, listed)
  \/ FindFeature \/ FindToggle \/ CheckFails

TogglesSpec == TogglesInit /\ [][TogglesNext]_togglesVars

-----------------------------------------------------------------------------
TogglesTypeOK ==
  /\ features \in [FeatureIds -> {"unused", "keyed", "other", "deleted"}]
  /\ toggles \subseteq UNION {[id : ToggleIds, level : {l}, entity : EntityOf(l),
                               on : BOOLEAN] : l \in Level}
  /\ check.pc \in {"idle", "find", "findAny", "passed", "refused", "failed"}
  /\ check.caller \in Caller \union {Undefined}
  /\ check.listed \in Listings \union {<<>>} /\ check.todo \in Seq(Level \union {"*"})
  /\ check.entity \in FeatureIds \union {Undefined}
  /\ writes \in 0 .. MaxWrites
  /\ wasOn \subseteq Level /\ wasOff \subseteq Level /\ undisturbed \in BOOLEAN

\* The strategies are checked with an AND operator (README): though its levels are
\* read at different moments, a request of a user passes only if every level it
\* lists was on at some moment of the check, and is refused only if one of them was
\* off at some moment.  A level is the toggle of the user, of the user's tenant or
\* of the feature, never somebody else's.
ChecksEveryLevel ==
  check.caller # Undefined /\ check.listed # <<"*">> /\ undisturbed =>
    /\ check.pc = "passed" => \A i \in DOMAIN check.listed : check.listed[i] \in wasOn
    /\ check.pc = "refused" => \E i \in DOMAIN check.listed : check.listed[i] \in wasOff
=============================================================================
