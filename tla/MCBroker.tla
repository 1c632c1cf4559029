------------------------------ MODULE MCBroker ------------------------------
(* Instances of Broker for TLC: who may call what, and what clients send. *)
EXTENDS Broker, TLC

CONSTANTS c1, c2, alice, mallory

MCUids      == {alice, mallory}
MCRefs      == {"op", "other", "ghost"}
MCDeclared  == {"op", "other"}
MCSecrets   == {"s1", "s2"}
MCSecretsOf == [o \in MCDeclared |-> IF o = "op" THEN {"s1", "s2"} ELSE {"s1"}]
MCAuthz     == {<<alice, "op">>}

Request(f, p, o, i) == [frame |-> f, protocol |-> p, operation |-> o, inputsOK |-> i]
Good  == Request("decodes", 1, "op", TRUE)

Interchangeable == Permutations({c1, c2})

\* One request that runs: what interleavings of whole operations need.
MCGood == {Good}

\* One request for every way Verdict and readFrame can end.
MCEvery == {Good,
            Request("garbage", 1, "op", TRUE),
            Request("oversized", 1, "op", TRUE),
            Request("decodes", 0, "op", TRUE),
            Request("decodes", 2, "op", TRUE),
            Request("decodes", 1, BadRef, TRUE),
            Request("decodes", 1, "other", TRUE),
            Request("decodes", 1, "other", FALSE),
            Request("decodes", 1, "ghost", TRUE),
            Request("decodes", 1, "op", FALSE)}
=============================================================================
