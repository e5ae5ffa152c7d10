------------------------------ MODULE MCTables ------------------------------
(* The components that keep their own promises to whoever uses them, each  *)
(* alone, for TLC.  part says which one a behaviour exercises; the others  *)
(* stay in their initial state.                                            *)
EXTENDS DynamicPool, SessionManager, PoolRange, IdentityManager,
        PluginLifecycle, PolicyEngine, TLC

CONSTANTS s1, s2, s3, alice, bob

VARIABLE part

tableVars == <<poolVars, sessionVars, rangeVars, identityVars, pluginVars, policyVars, part>>

(* alice has two IKE_SAs, bob one. *)
MCUserOf == (s1 :> alice) @@ (s2 :> alice) @@ (s3 :> bob)

TablesInit ==
  /\ part \in {"pool", "sessions", "range", "identity", "plugin", "policy"}
  /\ PoolInit /\ SessionInit /\ RangeInit /\ IdentityInit /\ LifecycleInit
  /\ PolicyInit

TablesNext ==
  /\ UNCHANGED part
  /\ \/ /\ part = "pool" /\ PoolNext
        /\ UNCHANGED <<sessionVars, rangeVars, identityVars, pluginVars, policyVars>>
     \/ /\ part = "sessions" /\ SessionNext
        /\ UNCHANGED <<poolVars, rangeVars, identityVars, pluginVars, policyVars>>
     \/ /\ part = "range" /\ RangeNext
        /\ UNCHANGED <<poolVars, sessionVars, identityVars, pluginVars, policyVars>>
     \/ /\ part = "identity" /\ IdentityNext
        /\ UNCHANGED <<poolVars, sessionVars, rangeVars, pluginVars, policyVars>>
     \/ /\ part = "plugin" /\ LifecycleNext
        /\ UNCHANGED <<poolVars, sessionVars, rangeVars, identityVars, policyVars>>
     \/ /\ part = "policy" /\ PolicyNext
        /\ UNCHANGED <<poolVars, sessionVars, rangeVars, identityVars, pluginVars>>

TablesSpec ==
  /\ TablesInit /\ [][TablesNext]_tableVars
  /\ LifecycleFairness /\ PolicyFairness
=============================================================================
