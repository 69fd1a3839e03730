----------------------------- MODULE MCUserAuth -----------------------------
(***************************************************************************)
(* Plans of up to two attempts of every kind, and three with an agent that *)
(* fails in between.                                                       *)
(***************************************************************************)
EXTENDS UserAuth

Key(id, sig) == [how |-> "key", id |-> id, sig |-> sig]
Agent(id, sig) == [how |-> "agent", id |-> id, sig |-> sig]
Other(how, id) == [how |-> how, id |-> id, sig |-> "good"]

Attempts ==
    {Key("known", "good"), Key("known", "bad"), Key("stale", "good"),
     Key("unknown", "good"),
     Agent("known", "good"), Agent("known", "bad"), Agent("known", "fails"),
     Agent("stale", "unsigned"),
     Other("none", "unknown"), Other("password", "unknown"),
     Other("password", "known"), Other("ki", "known"), Other("ki", "unknown")}

MCPlans ==
    {<<a>> : a \in Attempts} \cup (Attempts \X Attempts)
    \cup {<<Key("stale", "good"), Key("unknown", "good"), Key("known", "good")>>,
          <<Other("none", "unknown"), Key("known", "bad"), Agent("known", "good")>>,
          <<Key("unknown", "good"), Agent("known", "fails"), Agent("known", "good")>>}

\* An agent that refuses the first of its two identities.
AgentPlans == {<<Agent("known", "fails"), Agent("known", "good")>>}

MCProceed == {<<>>, <<{}>>}
KeepMethods == {<<>>}
=============================================================================
